---- MODULE Spec2Model ----
(***************************************************************************)
(* Model of the session layer of the GPS gateway                           *)
(* (src/app/src/session/output_session.py): SessionsManager, the           *)
(* per-device MainServerSession with its reentrant lock, the inbound       *)
(* reader thread of every TCP connection, and the downstream server.       *)
(*                                                                         *)
(* A caller thread runs SessionsManager.send_data; its Python call stack   *)
(* is kept as a sequence of frames, one step of the model being one        *)
(* statement (or one run of statements nobody else can observe).           *)
(***************************************************************************)
EXTENDS Integers, Sequences, FiniteSets, TLC

\* ---------------------------------------------------------------- bounds
MaxConns == 2          \* TCP connections opened in one behaviour
MaxRemoves == 1        \* remove_session calls made in one behaviour
MaxReports == 2        \* vendor records the mt02 worker polls in one behaviour
MaxTimestamp == 2      \* largest vendor timestamp

\* caller threads: worker.py starts one thread per report, and each makes one
\* forward call, hence one SessionsManager.send_data call
Threads == {"t1", "t2"}
Rank(t) == IF t = "t1" THEN 1 ELSE 2
Devices == {"d1"}                  \* device ids
PacketTypes == {"location", "heartbeat", "login"}
\* the (output_protocol, packet_type) arguments a call may carry: every packet
\* type for gt06; for a protocol without builders the data is b"" whatever the type
Inputs ==
    {<<"gt06", pt>> : pt \in PacketTypes}
        \cup {<<p, "location">> : p \in {"suntech4g", "tk103", ""}}
MaxSessions == MaxRemoves + 2      \* session objects that may be constructed

VARIABLES
    sessions,   \* SessionsManager.sessions: device id -> session object (0: no entry)
    mlock,      \* owner of SessionsManager.lock ("none": free)
    sess,       \* the MainServerSession objects constructed so far (lost: history,
                \* an I/O failure disconnected it and no connect was tried since)
    conns,      \* the TCP connections opened so far, each with its reader thread
    stack,      \* caller thread -> its call stack (sequence of frames)
    retv,       \* caller thread -> value returned by the call that just returned
    exc,        \* caller thread -> an exception is propagating up its stack
    calls,      \* caller thread -> its send_data call: arguments and history
    wlog,       \* history: every successful socket write, in order
    acq,        \* history: calls in the order they first got a session lock
    rm,         \* the thread calling remove_session
    redis,      \* state store: device id -> field output_protocol of device:<id>
                \* (<<>>: no such field, <<v>>: the string v)
    fwd,        \* caller thread -> its OutputProcessor.forward call
    mt02,       \* state store: device id -> the hash device:mt02:<id>
                \* (each field <<>>: absent, <<v>>: holds v)
    wk,         \* the mt02 worker thread: its place in the polling loop
    procs,      \* the process_location threads started so far, in order
    codec       \* the last GT06 packet built or command decoded

vars == <<sessions, mlock, sess, conns, stack, retv, exc, calls, wlog, acq, rm,
          redis, fwd, mt02, wk, procs, codec>>

\* ------------------------------------------------- registries and config

\* output_mappers.OUTPUT_PACKET_BUILDERS: only "gt06" has an entry
PacketBuilders(p) ==
    IF p = "gt06" THEN {"location", "heartbeat", "info", "login"} ELSE {}

\* OUTPUT_PACKET_BUILDERS.get(p) is not None
HasBuilders(p) == p = "gt06"

\* output_mappers.OUTPUT_COMMAND_MAPPERS.get(p) is not None
HasMapper(p) == p = "gt06"

\* settings.OUTPUT_PROTOCOL_HOST_ADRESSES.get(p): the deployment's address table
HasAddress(p) == p \in {"gt06", "suntech4g"}

\* settings.DEFAULT_OUTPUT_PROTOCOL: the deployment's default protocol
DefaultOutputProtocol == "gt06"

\* the strings the field output_protocol may hold in the store
StoredProtocols == {"", "gt06", "suntech4g"}

\* str.lower() on the protocol names that occur
Lower(p) == IF p = "GT06" THEN "gt06" ELSE p

\* ------------------------------------------------------------ helpers

Top(t) == stack[t][Len(stack[t])]

Running(t, fn, pc) ==
    /\ stack[t] # <<>>
    /\ ~exc[t]
    /\ Top(t).fn = fn
    /\ Top(t).pc = pc

\* a stack frame: function, position, and the arguments of _send_data
\* (pt: packet_type, cp: current_output_protocol, kind/role: what the data bytes are)
Frame(fn, pc, pt, cp, kind, role) ==
    [fn |-> fn, pc |-> pc, pt |-> pt, cp |-> cp, kind |-> kind, role |-> role]

\* the stack of t with the top frame moved to pc
Goto(t, pc) == [stack[t] EXCEPT ![Len(stack[t])].pc = pc]

\* the stack of t without its top frame
Popped(t) == SubSeq(stack[t], 1, Len(stack[t]) - 1)

\* the session object the call of thread t works on
SessOf(t) == calls[t].sid

\* threading.RLock.acquire on the session lock succeeds for t
SessLockFree(s, t) == sess[s].owner \in {"none", t}

\* a manager lock that excludes nobody (get_session without `with self.lock`)
MgrLockAlwaysFree(t) == TRUE

\* threading.RLock.acquire on the manager lock succeeds for t
MgrLockFree(t) == mlock \in {"none", t}

\* a release that frees the lock at once, however often it was acquired
ReleasedAtOnce(r) == [r EXCEPT !.depth = 0, !.owner = "none"]

\* leaving one `with self.lock` block (threading.RLock counts its acquisitions)
Released(r) ==
    [r EXCEPT !.depth = @ - 1, !.owner = IF r.depth = 1 THEN "none" ELSE @]

\* a disconnect that leaves the session as it is
SessKept(s) == sess[s]

\* MainServerSession.disconnect (body, lock held): the session afterwards
SessAfterDisconnect(s) ==
    IF sess[s].is_connected
    THEN [sess[s] EXCEPT !.sock = 0, !.is_connected = FALSE]
    ELSE sess[s]

\* a disconnect that closes no socket
ConnsKept(s) == conns

\* MainServerSession.disconnect: shutdown + close of the current socket
ConnsAfterDisconnect(s) ==
    IF sess[s].is_connected /\ sess[s].sock # 0
    THEN [conns EXCEPT ![sess[s].sock].closed = TRUE,
                       ![sess[s].sock].inbox = FALSE,
                       ![sess[s].sock].peer_closed = FALSE]
    ELSE conns

\* a heartbeat timer that runs as soon as it is constructed
TimerStartedAtOnce == TRUE

\* `threading.Timer(30, self._heartbeat)` (__init__ and _restore_heartbeat_timer):
\* whether the timer constructed there is running; .start() is never called on it
TimerStarted == FALSE

\* MainServerSession.__init__
NewSession(d, p, e) ==
    [dev |-> d, output_protocol |-> p, sock |-> 0, is_connected |-> FALSE,
     is_gt06_login_step |-> FALSE, timer_started |-> TimerStarted,
     owner |-> "none", depth |-> 0, epoch |-> e, lost |-> FALSE]

\* the top-level call of t ends (its last frame is popped)
CallsAtEnd(t, how, cs) ==
    IF Len(stack[t]) = 1
    THEN [cs EXCEPT ![t].outcome = how]
    ELSE cs

\* connect fails in the lazy connect of the call's own _send_data (line 306):
\* the reason is kept with the call
CallsAtConnectFailure(t, why, cs) ==
    IF Len(stack[t]) = 2 /\ stack[t][1].pc = "conn_ret"
    THEN [cs EXCEPT ![t].cfail = why]
    ELSE cs

\* a thread that has not called forward yet (read: what hget returned; proto:
\* the local output_protocol; wrote: history, the call did its hset; used:
\* the protocol forward handed on; pt: the packet_type argument, "location"
\* by default; packet: what create_output_packet returned)
NoForward ==
    [pc |-> "idle", dev |-> "", read |-> <<>>, proto |-> "", wrote |-> FALSE,
     used |-> "", pt |-> "location", packet |-> "none"]

\* the hash of a device nothing was stored for
NoHash ==
    [last_timestamp |-> <<>>, last_odometer |-> <<>>, last_lat |-> <<>>,
     last_lon |-> <<>>, voltage |-> <<>>]

\* no vendor record in hand (pos 0: lat or lng missing or zero)
NoReport == [timestamp |-> 0, pos |-> 0, battery |-> 0]

\* a thread that has not called yet
NoCall ==
    [dev |-> "", proto |-> "", pt |-> "", sid |-> 0, epoch |-> 0,
     outcome |-> "idle", waited |-> FALSE, wfail |-> FALSE,
     startdisc |-> FALSE, tried |-> FALSE, cfail |-> "none",
     api |-> "send_data", startconn |-> FALSE, vfail |-> FALSE]

Init ==
    /\ sessions = [d \in Devices |-> 0]
    /\ mlock = "none"
    /\ sess = <<>>
    /\ conns = <<>>
    /\ stack = [t \in Threads |-> <<>>]
    /\ retv = [t \in Threads |-> "None"]
    /\ exc = [t \in Threads |-> FALSE]
    /\ calls = [t \in Threads |-> NoCall]
    /\ wlog = <<>>
    /\ acq = <<>>
    /\ rm = [pc |-> "idle", sid |-> 0, n |-> 0]
    /\ redis = [d \in Devices |-> <<>>]
    /\ fwd = [t \in Threads |-> NoForward]
    /\ mt02 = [d \in Devices |-> NoHash]
    /\ wk = [pc |-> "idle", n |-> 0, dev |-> "", rep |-> NoReport,
             last |-> <<>>, dropped |-> 0]
    /\ procs = <<>>
    /\ codec = [op |-> "none", arg |-> <<>>, out |-> <<>>]

\* ------------------------------------------------------ SessionsManager

\* SessionsManager.send_data is called (by OutputProcessor.forward) for device d
\* with output protocol p and a data packet of type pt; it starts with get_session
SendData(t, d, p, pt) ==
    /\ calls[t].outcome = "idle"
    /\ \A u \in Threads : Rank(u) < Rank(t) => calls[u].outcome # "idle"
    /\ calls' = [calls EXCEPT ![t] =
            [NoCall EXCEPT !.dev = d, !.proto = p, !.pt = pt, !.outcome = "running"]]
    /\ stack' = [stack EXCEPT ![t] = <<Frame("get_session", "lock", pt, p, pt, "data")>>]
    /\ UNCHANGED <<sessions, mlock, sess, conns, retv, exc, wlog, acq, rm>>

\* get_session: `with self.lock`
GetSessionLock(t) ==
    /\ Running(t, "get_session", "lock")
    /\ MgrLockFree(t)
    /\ mlock' = t
    /\ stack' = [stack EXCEPT ![t] = Goto(t, "check")]
    /\ UNCHANGED <<sessions, sess, conns, retv, exc, calls, wlog, acq, rm>>

\* get_session: `if device_id not in self.sessions`
GetSessionCheck(t) ==
    /\ Running(t, "get_session", "check")
    /\ stack' = [stack EXCEPT ![t] =
            Goto(t, IF sessions[calls[t].dev] = 0 THEN "create" ELSE "return")]
    /\ UNCHANGED <<sessions, mlock, sess, conns, retv, exc, calls, wlog, acq, rm>>

\* get_session: `self.sessions[device_id] = MainServerSession(...)`
GetSessionCreate(t) ==
    /\ Running(t, "get_session", "create")
    /\ Len(sess) < MaxSessions
    /\ sess' = Append(sess, NewSession(calls[t].dev, calls[t].proto, rm.n))
    /\ sessions' = [sessions EXCEPT ![calls[t].dev] = Len(sess) + 1]
    /\ stack' = [stack EXCEPT ![t] = Goto(t, "return")]
    /\ UNCHANGED <<mlock, conns, retv, exc, calls, wlog, acq, rm>>

\* get_session: `return self.sessions[device_id]` and the lock is released;
\* send_data then calls session._send_data(data, output_protocol, packet_type)
GetSessionReturn(t) ==
    /\ Running(t, "get_session", "return")
    /\ LET d == calls[t].dev
           f == Top(t)
       IN  IF sessions[d] = 0
           THEN \* KeyError (only when the lock did not exclude a removal)
                /\ exc' = [exc EXCEPT ![t] = TRUE]
                /\ UNCHANGED <<stack, calls>>
           ELSE /\ calls' = [calls EXCEPT ![t].sid = sessions[d],
                                          ![t].epoch = rm.n]
                /\ stack' = [stack EXCEPT ![t] =
                        <<Frame("_send_data", "lock", f.pt, f.cp, f.kind, f.role)>>]
                /\ UNCHANGED exc
    /\ mlock' = IF mlock = t THEN "none" ELSE mlock
    /\ UNCHANGED <<sessions, sess, conns, retv, wlog, acq, rm>>

\* remove_session: `with self.lock: session = self.sessions.pop(device_id, None)`
RemoveSessionPop(d) ==
    /\ rm.pc = "idle"
    /\ rm.n < MaxRemoves
    /\ mlock = "none"
    /\ mlock' = "rm"
    /\ rm' = [pc |-> "held", sid |-> sessions[d], n |-> rm.n + 1]
    /\ sessions' = [sessions EXCEPT ![d] = 0]
    /\ UNCHANGED <<sess, conns, stack, retv, exc, calls, wlog, acq>>

\* remove_session: `if session: session.disconnect()`, then the manager lock is released
RemoveSessionDisconnect ==
    /\ rm.pc = "held"
    /\ IF rm.sid = 0
       THEN UNCHANGED <<sess, conns>>
       ELSE /\ sess[rm.sid].owner = "none"
            /\ sess' = [sess EXCEPT ![rm.sid] = SessAfterDisconnect(rm.sid)]
            /\ conns' = ConnsAfterDisconnect(rm.sid)
    /\ mlock' = "none"
    /\ rm' = [rm EXCEPT !.pc = "idle", !.sid = 0]
    /\ UNCHANGED <<sessions, stack, retv, exc, calls, wlog, acq>>

\* ---------------------------------------------------- MainServerSession

\* the thread leaves the `with self.lock` block of its top frame and returns v
\* (the call ends when that was its last frame)
Return(t, s, v, ss, cs) ==
    /\ sess' = [ss EXCEPT ![s] = Released(ss[s])]
    /\ stack' = [stack EXCEPT ![t] = Popped(t)]
    /\ retv' = [retv EXCEPT ![t] = v]
    /\ calls' = CallsAtEnd(t, "returned", cs)

\* _send_data: `with self.lock`
SendDataLock(t) ==
    /\ Running(t, "_send_data", "lock")
    /\ LET s == SessOf(t) IN
        /\ SessLockFree(s, t)
        /\ sess' = [sess EXCEPT ![s].owner = t, ![s].depth = @ + 1]
        /\ acq' = IF Len(stack[t]) = 1 THEN Append(acq, t) ELSE acq
    /\ stack' = [stack EXCEPT ![t] = Goto(t, "chk")]
    /\ UNCHANGED <<sessions, mlock, conns, retv, exc, calls, wlog, rm>>

\* _send_data: `if not self._is_connected or not self.sock: if not self.connect()`
SendDataCheck(t) ==
    /\ Running(t, "_send_data", "chk")
    /\ LET s == SessOf(t)
           f == Top(t)
       IN  IF ~sess[s].is_connected \/ sess[s].sock = 0
           THEN /\ stack' = [stack EXCEPT ![t] =
                        Append(Goto(t, "conn_ret"), Frame("connect", "chk", f.pt, f.cp, f.kind, f.role))]
                /\ calls' = IF Len(stack[t]) = 1
                            THEN [calls EXCEPT ![t].startdisc =
                                    ~sess[s].is_connected /\ sess[s].lost]
                            ELSE calls
           ELSE /\ stack' = [stack EXCEPT ![t] = Goto(t, "proto")]
                /\ UNCHANGED calls
    /\ UNCHANGED <<sessions, mlock, sess, conns, retv, exc, wlog, acq, rm>>

\* the frames with which _send_data goes on to
\* `self._handle_protocol_specific_behaviors(packet_type)` and then to the write
EnterHandle(t) ==
    LET f == Top(t) IN
    Append(Goto(t, "write"), Frame("_handle", "start", f.pt, f.cp, f.kind, f.role))

\* _send_data: connect() has returned (lazy connect, or protocol-change reconnect):
\* `if not self.connect(): return`
SendDataConnected(t) ==
    /\ stack[t] # <<>> /\ ~exc[t]
    /\ Top(t).fn = "_send_data"
    /\ Top(t).pc \in {"conn_ret", "pc_ret"}
    /\ IF retv[t] = "True"
       THEN /\ stack' = [stack EXCEPT ![t] =
                    IF Top(t).pc = "conn_ret" THEN Goto(t, "proto") ELSE EnterHandle(t)]
            /\ UNCHANGED <<sess, retv, calls>>
       ELSE Return(t, SessOf(t), "None", sess, calls)
    /\ UNCHANGED <<sessions, mlock, conns, exc, wlog, acq, rm>>

\* _send_data: `if current_output_protocol and current_output_protocol.lower() !=
\* self.output_protocol`: disconnect, switch the protocol, connect again
SendDataProtocol(t) ==
    /\ Running(t, "_send_data", "proto")
    /\ LET s == SessOf(t)
           f == Top(t)
       IN  IF f.cp # "" /\ Lower(f.cp) # sess[s].output_protocol
           THEN /\ sess' = [sess EXCEPT ![s] =
                        [SessAfterDisconnect(s) EXCEPT !.output_protocol = f.cp]]
                /\ conns' = ConnsAfterDisconnect(s)
                /\ stack' = [stack EXCEPT ![t] =
                        Append(Goto(t, "pc_ret"), Frame("connect", "chk", f.pt, f.cp, f.kind, f.role))]
           ELSE /\ stack' = [stack EXCEPT ![t] = EnterHandle(t)]
                /\ UNCHANGED <<sess, conns>>
    /\ UNCHANGED <<sessions, mlock, retv, exc, calls, wlog, acq, rm>>

\* a connect that never takes the session for connected
NeverConnected(s) == FALSE

\* connect: `if self._is_connected` (line 48)
AlreadyConnected(s) == sess[s].is_connected

\* connect: `with self.lock: if self._is_connected: return True`, then the checks
\* of the protocol and of its address (`return`, i.e. None, when one is missing)
Connect(t) ==
    /\ Running(t, "connect", "chk")
    /\ LET s == SessOf(t) IN
        /\ SessLockFree(s, t)
        /\ IF AlreadyConnected(s) \/ sess[s].output_protocol = ""
              \/ ~HasAddress(sess[s].output_protocol)
           THEN /\ stack' = [stack EXCEPT ![t] = Popped(t)]
                /\ retv' = [retv EXCEPT ![t] =
                        IF AlreadyConnected(s) THEN "True" ELSE "None"]
                /\ calls' = CallsAtEnd(t, "returned",
                            IF AlreadyConnected(s) THEN calls
                            ELSE CallsAtConnectFailure(t,
                                    IF sess[s].output_protocol = "" THEN "noproto" ELSE "noaddr",
                                    calls))
                /\ UNCHANGED sess
           ELSE /\ sess' = [sess EXCEPT ![s].owner = t, ![s].depth = @ + 1]
                /\ stack' = [stack EXCEPT ![t] = Goto(t, "tcp")]
                /\ UNCHANGED <<retv, calls>>
    /\ UNCHANGED <<sessions, mlock, conns, exc, wlog, acq, rm>>

\* connect leaving self._is_connected as it was when its attempt fails
ConnectedKept == TRUE

\* the value of self._is_connected after `except Exception` in connect (line 80)
ConnectedAfterFailure == FALSE

\* connect: `self.sock = socket.create_connection(address, timeout=5)`,
\* `self._is_connected = True`, the reader thread is started, and
\* _present_connection is called; or create_connection raises
ConnectTcp(t, ok) ==
    /\ Running(t, "connect", "tcp")
    /\ LET s == SessOf(t)
           f == Top(t)
       IN  IF ok
           THEN /\ Len(conns) < MaxConns
                /\ conns' = Append(conns,
                        [sid |-> s, addr |-> sess[s].output_protocol, by |-> t,
                         closed |-> FALSE, inbox |-> FALSE, peer_closed |-> FALSE,
                         rpc |-> "loop", rsock |-> 0])
                /\ sess' = [sess EXCEPT ![s].sock = Len(conns) + 1, ![s].is_connected = TRUE,
                                         ![s].lost = FALSE]
                /\ stack' = [stack EXCEPT ![t] =
                        Append(Goto(t, "ret"),
                               Frame("_present_connection", "start", f.pt, f.cp, f.kind, f.role))]
                /\ calls' = [calls EXCEPT ![t].tried = TRUE]
                /\ UNCHANGED retv
           ELSE /\ Return(t, s, "False",
                          [sess EXCEPT ![s].is_connected = ConnectedAfterFailure,
                                       ![s].lost = FALSE],
                          CallsAtConnectFailure(t, "tcp", [calls EXCEPT ![t].tried = TRUE]))
                /\ UNCHANGED conns
    /\ UNCHANGED <<sessions, mlock, exc, wlog, acq, rm>>

\* connect: _present_connection has returned: `return True`
ConnectReturn(t) ==
    /\ Running(t, "connect", "ret")
    /\ Return(t, SessOf(t), "True", sess, calls)
    /\ UNCHANGED <<sessions, mlock, conns, exc, wlog, acq, rm>>

\* _present_connection: the login builder is looked up; for gt06 the login step
\* begins; the login packet is built and handed to _send_data as "login"
PresentConnection(t) ==
    /\ Running(t, "_present_connection", "start")
    /\ LET s == SessOf(t)
           p == sess[s].output_protocol
       IN  IF ~HasBuilders(p)
           THEN \* OUTPUT_PACKET_BUILDERS.get(p) is None: AttributeError
                /\ exc' = [exc EXCEPT ![t] = TRUE]
                /\ UNCHANGED <<sess, stack>>
           ELSE IF "login" \notin PacketBuilders(p)
           THEN /\ stack' = [stack EXCEPT ![t] = Popped(t)]
                /\ UNCHANGED <<sess, exc>>
           ELSE /\ sess' = [sess EXCEPT ![s].is_gt06_login_step = (p = "gt06") \/ @]
                /\ stack' = [stack EXCEPT ![t] =
                        Append(Goto(t, "ret"), Frame("_send_data", "lock", "login", p, "login", "present"))]
                /\ UNCHANGED exc
    /\ UNCHANGED <<sessions, mlock, conns, retv, calls, wlog, acq, rm>>

\* _present_connection: the login send has returned
PresentReturn(t) ==
    /\ Running(t, "_present_connection", "ret")
    /\ stack' = [stack EXCEPT ![t] = Popped(t)]
    /\ UNCHANGED <<sessions, mlock, sess, conns, retv, exc, calls, wlog, acq, rm>>

\* a login step nobody waits for
NoLoginWait(s, pt) == FALSE

\* _handle_protocol_specific_behaviors: `self._is_gt06_login_step and packet_type != "login"`
LoginWaitNeeded(s, pt) == sess[s].is_gt06_login_step /\ pt # "login"

\* _handle_protocol_specific_behaviors: entry
HandleStart(t) ==
    /\ Running(t, "_handle", "start")
    /\ LET s == SessOf(t) IN
        IF sess[s].output_protocol = "gt06"
        THEN /\ stack' = [stack EXCEPT ![t] =
                    Goto(t, IF LoginWaitNeeded(s, Top(t).pt) THEN "wait" ELSE "volt")]
             /\ calls' = [calls EXCEPT ![t].waited = @ \/ LoginWaitNeeded(s, Top(t).pt)]
        ELSE /\ stack' = [stack EXCEPT ![t] = Popped(t)]
             /\ UNCHANGED calls
    /\ UNCHANGED <<sessions, mlock, sess, conns, retv, exc, wlog, acq, rm>>

\* a warm-up that sends the caller's own packet again instead of a heartbeat
ResendPacket(f) == [kind |-> f.kind, role |-> f.role]

\* _heartbeat: the packet it builds and sends with packet_type "heartbeat"
HeartbeatPacket(f) == [kind |-> "heartbeat", role |-> "warm"]

\* _handle_protocol_specific_behaviors: `while self._is_gt06_login_step: time.sleep(0.1)`
\* is left once the flag is clear, and `self._heartbeat()` sends a heartbeat
HandleWait(t) ==
    /\ Running(t, "_handle", "wait")
    /\ LET s == SessOf(t)
           hb == HeartbeatPacket(Top(t))
       IN  /\ ~sess[s].is_gt06_login_step
           /\ stack' = [stack EXCEPT ![t] =
                   Append(Goto(t, "volt"),
                          Frame("_send_data", "lock", "heartbeat", sess[s].output_protocol,
                                hb.kind, hb.role))]
    /\ UNCHANGED <<sessions, mlock, sess, conns, retv, exc, calls, wlog, acq, rm>>

\* _handle_protocol_specific_behaviors: `if packet_type == "location"`: the "info"
\* builder is found and `__get_device_voltage()` is called without its `self`
\* argument: TypeError, before any voltage packet is built or written
HandleVoltage(t) ==
    /\ Running(t, "_handle", "volt")
    /\ IF Top(t).pt = "location" /\ "info" \in PacketBuilders(sess[SessOf(t)].output_protocol)
       THEN /\ exc' = [exc EXCEPT ![t] = TRUE]
            /\ calls' = [calls EXCEPT ![t].vfail = TRUE]
            /\ UNCHANGED stack
       ELSE /\ stack' = [stack EXCEPT ![t] = Popped(t)]
            /\ UNCHANGED <<exc, calls>>
    /\ UNCHANGED <<sessions, mlock, sess, conns, retv, wlog, acq, rm>>

\* _send_data: `self.sock.sendall(data)`; on success the heartbeat timer object is
\* replaced by a new one (which is not started); on an exception (a socket error,
\* or self.sock being None) disconnect(); then the lock is released
SendDataWrite(t, ok) ==
    /\ Running(t, "_send_data", "write")
    /\ LET s == SessOf(t)
           f == Top(t)
       IN  IF ok /\ sess[s].sock # 0
           THEN /\ wlog' = Append(wlog,
                        [conn |-> sess[s].sock, sid |-> s, call |-> t,
                         kind |-> f.kind, role |-> f.role,
                         lp |-> sess[s].is_gt06_login_step])
                /\ Return(t, s, "None", [sess EXCEPT ![s].timer_started = TimerStarted], calls)
                /\ UNCHANGED conns
           ELSE /\ Return(t, s, "None",
                          [sess EXCEPT ![s] = [SessAfterDisconnect(s) EXCEPT !.lost = TRUE]],
                          [calls EXCEPT ![t].wfail = TRUE])
                /\ conns' = ConnsAfterDisconnect(s)
                /\ UNCHANGED wlog
    /\ UNCHANGED <<sessions, mlock, exc, acq, rm>>

\* an exception goes up one frame: `with self.lock` releases the lock of a
\* _send_data frame; `except Exception` of connect sets _is_connected False and
\* returns False; out of the last frame the exception reaches the caller
Unwind(t) ==
    /\ exc[t]
    /\ stack[t] # <<>>
    /\ LET f == Top(t)
           s == SessOf(t)
       IN  IF f.fn = "connect"
           THEN /\ Return(t, s, "False",
                          [sess EXCEPT ![s].is_connected = ConnectedAfterFailure],
                          CallsAtConnectFailure(t, "present", calls))
                /\ exc' = [exc EXCEPT ![t] = FALSE]
           ELSE /\ stack' = [stack EXCEPT ![t] = Popped(t)]
                /\ sess' = IF f.fn = "_send_data"
                           THEN [sess EXCEPT ![s] = Released(sess[s])]
                           ELSE sess
                /\ calls' = CallsAtEnd(t, "raised", calls)
                /\ exc' = [exc EXCEPT ![t] = Len(stack[t]) > 1]
                /\ UNCHANGED retv
    /\ UNCHANGED <<sessions, mlock, conns, wlog, acq, rm>>

\* ------------------------------------- inbound reader (_listen_to_server)

\* the reader of connection k evaluates `while self._is_connected`,
\* `if not self.sock: return` and blocks in `self.sock.recv(4096)` on the socket
\* the session holds at that moment (or ends): its fields afterwards
Listening(k, ss) ==
    LET s == conns[k].sid IN
    IF ss[s].is_connected /\ ss[s].sock # 0
    THEN [rpc |-> "recv", rsock |-> ss[s].sock]
    ELSE [rpc |-> "done", rsock |-> 0]

\* _listen_to_server: the thread started by connect reaches its first recv
ListenLoop(k) ==
    /\ conns[k].rpc = "loop"
    /\ conns' = [conns EXCEPT ![k].rpc = Listening(k, sess).rpc,
                              ![k].rsock = Listening(k, sess).rsock]
    /\ UNCHANGED <<sessions, mlock, sess, stack, retv, exc, calls, wlog, acq, rm>>

\* recv returns bytes: in the login step the flag is cleared, the bytes are
\* dropped and the loop continues; otherwise the command mapper of the protocol
\* is called with one argument where map_command(dev_id, command) takes two:
\* TypeError, caught by `except Exception`, which goes on to self.disconnect();
\* without a mapper the loop continues
ListenData(k) ==
    /\ conns[k].rpc = "recv"
    /\ LET s == conns[k].sid
           c == conns[k].rsock
           r == Listening(k, sess)
       IN  /\ ~conns[c].closed
           /\ conns[c].inbox
           /\ sess' = [sess EXCEPT ![s].is_gt06_login_step = FALSE]
           /\ conns' = IF ~sess[s].is_gt06_login_step /\ HasMapper(sess[s].output_protocol)
                       THEN [conns EXCEPT ![c].inbox = FALSE, ![k].rsock = 0, ![k].rpc = "disc"]
                       ELSE [conns EXCEPT ![c].inbox = FALSE, ![k].rsock = r.rsock, ![k].rpc = r.rpc]
    /\ UNCHANGED <<sessions, mlock, stack, retv, exc, calls, wlog, acq, rm>>

\* recv raises socket.timeout (the socket has the 5 s timeout of
\* create_connection): `continue`
ListenTimeout(k) ==
    /\ conns[k].rpc = "recv"
    /\ LET c == conns[k].rsock IN
        ~conns[c].closed /\ ~conns[c].peer_closed /\ ~conns[c].inbox
    /\ Listening(k, sess).rsock # conns[k].rsock
    /\ conns' = [conns EXCEPT ![k].rpc = Listening(k, sess).rpc,
                              ![k].rsock = Listening(k, sess).rsock]
    /\ UNCHANGED <<sessions, mlock, sess, stack, retv, exc, calls, wlog, acq, rm>>

\* recv returns b"" (the peer closed) or raises (the socket was shut down and
\* closed by disconnect), or the mapper call has raised: `self.disconnect(); return`.
\* disconnect takes the session lock
ListenDisconnect(k) ==
    /\ \/ conns[k].rpc = "disc"
       \/ /\ conns[k].rpc = "recv"
          /\ LET c == conns[k].rsock IN
                conns[c].closed \/ (conns[c].peer_closed /\ ~conns[c].inbox)
    /\ LET s == conns[k].sid IN
        /\ sess[s].owner = "none"
        /\ sess' = [sess EXCEPT ![s] = [SessAfterDisconnect(s) EXCEPT !.lost = TRUE]]
        /\ conns' = [ConnsAfterDisconnect(s) EXCEPT ![k].rpc = "done", ![k].rsock = 0]
    /\ UNCHANGED <<sessions, mlock, stack, retv, exc, calls, wlog, acq, rm>>

\* ------------------------------------------------- the downstream server

\* the server sends bytes on connection k
ServerSend(k) ==
    /\ ~conns[k].closed /\ ~conns[k].peer_closed /\ ~conns[k].inbox
    /\ conns' = [conns EXCEPT ![k].inbox = TRUE]
    /\ UNCHANGED <<sessions, mlock, sess, stack, retv, exc, calls, wlog, acq, rm>>

\* the server closes connection k
ServerClose(k) ==
    /\ ~conns[k].closed /\ ~conns[k].peer_closed
    /\ conns' = [conns EXCEPT ![k].peer_closed = TRUE]
    /\ UNCHANGED <<sessions, mlock, sess, stack, retv, exc, calls, wlog, acq, rm>>

\* ---------------------------------------------------------------- Next

\* the next statement of thread t touches only what the lock it holds protects
\* (or its own frame): no other thread can tell when it runs
\* a step of the sessions leaves the state store and the forward calls alone
SessionsOnly == UNCHANGED <<redis, fwd, mt02, wk, procs, codec>>

\* a step of the output layer leaves the input layer and the codec alone
OutputOnly == UNCHANGED <<mt02, wk, procs, codec>>

Local(t) ==
    /\ stack[t] # <<>>
    /\ \/ exc[t]
       \/ <<Top(t).fn, Top(t).pc>> \in
            {<<"_send_data", "chk">>, <<"_send_data", "conn_ret">>,
             <<"_send_data", "pc_ret">>, <<"connect", "chk">>, <<"connect", "ret">>,
             <<"_present_connection", "ret">>, <<"_handle", "volt">>}

Quiet == \A t \in Threads : ~Local(t)

\* statements that only the running thread can observe run at once; all other
\* steps interleave freely
Next ==
    \/ \E t \in Threads : SendDataCheck(t) /\ SessionsOnly
    \/ \E t \in Threads : SendDataConnected(t) /\ SessionsOnly
    \/ \E t \in Threads : Connect(t) /\ SessionsOnly
    \/ \E t \in Threads : ConnectReturn(t) /\ SessionsOnly
    \/ \E t \in Threads : PresentReturn(t) /\ SessionsOnly
    \/ \E t \in Threads : HandleVoltage(t) /\ SessionsOnly
    \/ \E t \in Threads : Unwind(t) /\ SessionsOnly
    \/ Quiet /\ \E t \in Threads, d \in Devices, in \in Inputs : SendData(t, d, in[1], in[2]) /\ SessionsOnly
    \/ Quiet /\ \E t \in Threads : GetSessionLock(t) /\ SessionsOnly
    \/ Quiet /\ \E t \in Threads : GetSessionCheck(t) /\ SessionsOnly
    \/ Quiet /\ \E t \in Threads : GetSessionCreate(t) /\ SessionsOnly
    \/ Quiet /\ \E t \in Threads : GetSessionReturn(t) /\ SessionsOnly
    \/ Quiet /\ \E t \in Threads : SendDataLock(t) /\ SessionsOnly
    \/ Quiet /\ \E t \in Threads : SendDataProtocol(t) /\ SessionsOnly
    \/ Quiet /\ \E t \in Threads, ok \in BOOLEAN : ConnectTcp(t, ok) /\ SessionsOnly
    \/ Quiet /\ \E t \in Threads : PresentConnection(t) /\ SessionsOnly
    \/ Quiet /\ \E t \in Threads : HandleStart(t) /\ SessionsOnly
    \/ Quiet /\ \E t \in Threads : HandleWait(t) /\ SessionsOnly
    \/ Quiet /\ \E t \in Threads, ok \in BOOLEAN : SendDataWrite(t, ok) /\ SessionsOnly
    \/ Quiet /\ \E k \in 1..Len(conns) : ListenLoop(k) /\ SessionsOnly
    \/ Quiet /\ \E k \in 1..Len(conns) : ListenData(k) /\ SessionsOnly
    \/ Quiet /\ \E k \in 1..Len(conns) : ListenTimeout(k) /\ SessionsOnly
    \/ Quiet /\ \E k \in 1..Len(conns) : ListenDisconnect(k) /\ SessionsOnly
    \/ Quiet /\ \E k \in 1..Len(conns) : ServerSend(k) /\ SessionsOnly
    \/ Quiet /\ \E k \in 1..Len(conns) : ServerClose(k) /\ SessionsOnly

\* the sessions of one device under concurrent sends, readers and server
Spec == Init /\ [][Next]_vars

\* The same program with SessionsManager.remove_session called concurrently.
\* Two sessions of one device then run side by side, so the environment is kept
\* small here: gt06 sends of a heartbeat packet, no socket errors (and so no
\* reconnection, without which a recv timeout changes nothing)
InputsRm == {<<"gt06", "heartbeat">>}

NextRm ==
    \/ \E t \in Threads : SendDataCheck(t) /\ SessionsOnly
    \/ \E t \in Threads : SendDataConnected(t) /\ SessionsOnly
    \/ \E t \in Threads : Connect(t) /\ SessionsOnly
    \/ \E t \in Threads : ConnectReturn(t) /\ SessionsOnly
    \/ \E t \in Threads : PresentReturn(t) /\ SessionsOnly
    \/ \E t \in Threads : HandleVoltage(t) /\ SessionsOnly
    \/ Quiet /\ \E t \in Threads, d \in Devices, in \in InputsRm : SendData(t, d, in[1], in[2]) /\ SessionsOnly
    \/ Quiet /\ \E t \in Threads : GetSessionLock(t) /\ SessionsOnly
    \/ Quiet /\ \E t \in Threads : GetSessionCheck(t) /\ SessionsOnly
    \/ Quiet /\ \E t \in Threads : GetSessionCreate(t) /\ SessionsOnly
    \/ Quiet /\ \E t \in Threads : GetSessionReturn(t) /\ SessionsOnly
    \/ Quiet /\ \E d \in Devices : RemoveSessionPop(d) /\ SessionsOnly
    \/ Quiet /\ RemoveSessionDisconnect /\ SessionsOnly
    \/ Quiet /\ \E t \in Threads : SendDataLock(t) /\ SessionsOnly
    \/ Quiet /\ \E t \in Threads : SendDataProtocol(t) /\ SessionsOnly
    \/ Quiet /\ \E t \in Threads : ConnectTcp(t, TRUE) /\ SessionsOnly
    \/ Quiet /\ \E t \in Threads : PresentConnection(t) /\ SessionsOnly
    \/ Quiet /\ \E t \in Threads : HandleStart(t) /\ SessionsOnly
    \/ Quiet /\ \E t \in Threads : HandleWait(t) /\ SessionsOnly
    \/ Quiet /\ \E t \in Threads : SendDataWrite(t, TRUE) /\ SessionsOnly
    \/ Quiet /\ \E k \in 1..Len(conns) : ListenLoop(k) /\ SessionsOnly
    \/ Quiet /\ \E k \in 1..Len(conns) : ListenData(k) /\ SessionsOnly
    \/ Quiet /\ \E k \in 1..Len(conns) : ListenDisconnect(k) /\ SessionsOnly
    \/ Quiet /\ \E k \in 1..Len(conns) : ServerSend(k) /\ SessionsOnly

SpecRm == Init /\ [][NextRm]_vars

\* The program with the public methods connect() and disconnect() of a session
\* also called directly, by a thread that holds no lock.

\* `session.connect()` is called on the session of device d
CallConnect(t, d) ==
    /\ calls[t].outcome = "idle"
    /\ \A u \in Threads : Rank(u) < Rank(t) => calls[u].outcome # "idle"
    /\ sessions[d] # 0
    /\ calls' = [calls EXCEPT ![t] =
            [NoCall EXCEPT !.dev = d, !.api = "connect", !.sid = sessions[d],
                           !.outcome = "running"]]
    /\ stack' = [stack EXCEPT ![t] = <<Frame("connect", "enter", "", "", "", "")>>]
    /\ UNCHANGED <<sessions, mlock, sess, conns, retv, exc, wlog, acq, rm>>

\* connect: `with self.lock` is entered by a caller that does not hold the lock
ConnectEnter(t) ==
    /\ Running(t, "connect", "enter")
    /\ sess[SessOf(t)].owner = "none"
    /\ stack' = [stack EXCEPT ![t] = Goto(t, "chk")]
    /\ calls' = [calls EXCEPT ![t].startconn = sess[SessOf(t)].is_connected]
    /\ UNCHANGED <<sessions, mlock, sess, conns, retv, exc, wlog, acq, rm>>

\* `session.disconnect()` is called on the session of device d and runs once
\* the session lock is free
CallDisconnect(t, d) ==
    /\ calls[t].outcome = "idle"
    /\ \A u \in Threads : Rank(u) < Rank(t) => calls[u].outcome # "idle"
    /\ sessions[d] # 0
    /\ sess[sessions[d]].owner = "none"
    /\ calls' = [calls EXCEPT ![t] =
            [NoCall EXCEPT !.dev = d, !.api = "disconnect", !.sid = sessions[d],
                           !.outcome = "returned"]]
    /\ sess' = [sess EXCEPT ![sessions[d]] = SessAfterDisconnect(sessions[d])]
    /\ conns' = ConnsAfterDisconnect(sessions[d])
    /\ UNCHANGED <<sessions, mlock, stack, retv, exc, wlog, acq, rm>>

NextApi ==
    \/ Next
    \/ Quiet /\ \E t \in Threads, d \in Devices : CallConnect(t, d) /\ SessionsOnly
    \/ Quiet /\ \E t \in Threads : ConnectEnter(t) /\ SessionsOnly
    \/ Quiet /\ \E t \in Threads, d \in Devices : CallDisconnect(t, d) /\ SessionsOnly

SpecApi == Init /\ [][NextApi]_vars

\* ------------------------------------------- OutputProcessor.forward

\* a test `output_protocol is None`: the field does not exist
IsNone(r) == r = <<>>

\* `not output_protocol` on what hget returned: None or the empty string
Falsy(r) == r = <<>> \/ r[1] = ""

\* a thread calls output_processor.forward(device_id, ...)
Forward(t, d) ==
    /\ fwd[t].pc \in {"idle", "done"}
    /\ fwd' = [fwd EXCEPT ![t] = [NoForward EXCEPT !.pc = "hget", !.dev = d]]
    /\ UNCHANGED <<sessions, mlock, sess, conns, stack, retv, exc, calls,
                   wlog, acq, rm, redis>>

\* check_output_protocol: redis_client.hget(f"device:{device_id}",
\* "output_protocol") and the test `if not output_protocol`
CheckOutputProtocolHget(t) ==
    /\ fwd[t].pc = "hget"
    /\ LET r == redis[fwd[t].dev] IN
        fwd' = [fwd EXCEPT ![t].read = r,
                    ![t].proto = IF Falsy(r) THEN DefaultOutputProtocol ELSE r[1],
                    ![t].pc = IF Falsy(r) THEN "hset" ELSE "ret"]
    /\ UNCHANGED <<sessions, mlock, sess, conns, stack, retv, exc, calls,
                   wlog, acq, rm, redis>>

\* check_output_protocol: redis_client.hset(f"device:{device_id}",
\* "output_protocol", output_protocol) with the default
CheckOutputProtocolHset(t) ==
    /\ fwd[t].pc = "hset"
    /\ redis' = [redis EXCEPT ![fwd[t].dev] = <<fwd[t].proto>>]
    /\ fwd' = [fwd EXCEPT ![t].wrote = TRUE, ![t].pc = "ret"]
    /\ UNCHANGED <<sessions, mlock, sess, conns, stack, retv, exc, calls,
                   wlog, acq, rm>>

\* check_output_protocol returns and forward hands the protocol to
\* create_output_packet, log_output_packet and sessions_manager.send_data
ForwardUse(t) ==
    /\ fwd[t].pc = "ret"
    /\ fwd' = [fwd EXCEPT ![t].used = fwd[t].proto, ![t].pc = "done"]
    /\ UNCHANGED <<sessions, mlock, sess, conns, stack, retv, exc, calls,
                   wlog, acq, rm, redis>>

\* create_output_packet: the builder registered for (output_protocol,
\* packet_type) builds the packet; without one the result is b""
ForwardCreate(t) ==
    /\ fwd[t].pc = "ret"
    /\ fwd' = [fwd EXCEPT
            ![t].packet = IF fwd[t].pt \in PacketBuilders(fwd[t].proto)
                          THEN "built" ELSE "empty",
            ![t].pc = "log"]
    /\ UNCHANGED <<sessions, mlock, sess, conns, stack, retv, exc, calls,
                   wlog, acq, rm, redis>>

\* log_output_packet: visual_packet is bound for suntech4g and gt06 only, the
\* second logger.info raises UnboundLocalError for any other protocol
ForwardLog(t) ==
    /\ fwd[t].pc = "log"
    /\ fwd' = [fwd EXCEPT ![t].pc =
            IF fwd[t].proto \in {"suntech4g", "gt06"} THEN "send" ELSE "raised"]
    /\ UNCHANGED <<sessions, mlock, sess, conns, stack, retv, exc, calls,
                   wlog, acq, rm, redis>>

\* forward: self.sessions_manager.send_data(device_id, input_source,
\* output_protocol, output_packet, packet_type)
ForwardSendData(t) ==
    /\ fwd[t].pc = "send"
    /\ SendData(t, fwd[t].dev, fwd[t].proto, fwd[t].pt)
    /\ fwd' = [fwd EXCEPT ![t].used = fwd[t].proto, ![t].pc = "sent"]
    /\ UNCHANGED redis

\* send_data returns, or its exception leaves forward
ForwardReturn(t) ==
    /\ fwd[t].pc = "sent"
    /\ calls[t].outcome \in {"returned", "raised"}
    /\ fwd' = [fwd EXCEPT ![t].pc =
            IF calls[t].outcome = "raised" THEN "raised" ELSE "done"]
    /\ UNCHANGED <<sessions, mlock, sess, conns, stack, retv, exc, calls,
                   wlog, acq, rm, redis>>

\* another client of the state store sets or deletes the field
StoreSet(d, r) ==
    /\ redis[d] # r
    /\ redis' = [redis EXCEPT ![d] = r]
    /\ UNCHANGED <<sessions, mlock, sess, conns, stack, retv, exc, calls,
                   wlog, acq, rm, fwd>>

NextFwd ==
    \/ \E t \in Threads, d \in Devices : Forward(t, d) /\ OutputOnly
    \/ \E t \in Threads : CheckOutputProtocolHget(t) /\ OutputOnly
    \/ \E t \in Threads : CheckOutputProtocolHset(t) /\ OutputOnly
    \/ \E t \in Threads : ForwardUse(t) /\ OutputOnly
    \/ \E d \in Devices, r \in {<<>>} \cup {<<v>> : v \in StoredProtocols} :
            StoreSet(d, r) /\ OutputOnly

\* concurrent forward calls resolving the output protocol of a device whose
\* stored protocol other clients of the store may change
SpecFwd == Init /\ [][NextFwd]_vars

\* the protocols another client stores for a device in the forward-to-send
\* pipeline: one with an address and no builders, one with neither
SwitchedProtocols == {"suntech4g", "tk103"}

NextOut ==
    \/ \E t \in Threads : SendDataCheck(t) /\ SessionsOnly
    \/ \E t \in Threads : SendDataConnected(t) /\ SessionsOnly
    \/ \E t \in Threads : Connect(t) /\ SessionsOnly
    \/ \E t \in Threads : ConnectReturn(t) /\ SessionsOnly
    \/ \E t \in Threads : PresentReturn(t) /\ SessionsOnly
    \/ \E t \in Threads : HandleVoltage(t) /\ SessionsOnly
    \/ \E t \in Threads : Unwind(t) /\ SessionsOnly
    \/ Quiet /\ \E t \in Threads, d \in Devices : fwd[t].pc = "idle" /\ Forward(t, d) /\ OutputOnly
    \/ Quiet /\ \E t \in Threads : CheckOutputProtocolHget(t) /\ OutputOnly
    \/ Quiet /\ \E t \in Threads : CheckOutputProtocolHset(t) /\ OutputOnly
    \/ Quiet /\ \E t \in Threads : ForwardCreate(t) /\ OutputOnly
    \/ Quiet /\ \E t \in Threads : ForwardLog(t) /\ OutputOnly
    \/ Quiet /\ \E t \in Threads : ForwardSendData(t) /\ OutputOnly
    \/ Quiet /\ \E t \in Threads : ForwardReturn(t) /\ OutputOnly
    \/ Quiet /\ \E d \in Devices, v \in SwitchedProtocols : StoreSet(d, <<v>>) /\ OutputOnly
    \/ Quiet /\ \E t \in Threads : GetSessionLock(t) /\ SessionsOnly
    \/ Quiet /\ \E t \in Threads : GetSessionCheck(t) /\ SessionsOnly
    \/ Quiet /\ \E t \in Threads : GetSessionCreate(t) /\ SessionsOnly
    \/ Quiet /\ \E t \in Threads : GetSessionReturn(t) /\ SessionsOnly
    \/ Quiet /\ \E t \in Threads : SendDataLock(t) /\ SessionsOnly
    \/ Quiet /\ \E t \in Threads : SendDataProtocol(t) /\ SessionsOnly
    \/ Quiet /\ \E t \in Threads, ok \in BOOLEAN : ConnectTcp(t, ok) /\ SessionsOnly
    \/ Quiet /\ \E t \in Threads : PresentConnection(t) /\ SessionsOnly
    \/ Quiet /\ \E t \in Threads : HandleStart(t) /\ SessionsOnly
    \/ Quiet /\ \E t \in Threads : HandleWait(t) /\ SessionsOnly
    \/ Quiet /\ \E t \in Threads, ok \in BOOLEAN : SendDataWrite(t, ok) /\ SessionsOnly
    \/ Quiet /\ \E k \in 1..Len(conns) : ListenLoop(k) /\ SessionsOnly
    \/ Quiet /\ \E k \in 1..Len(conns) : ListenData(k) /\ SessionsOnly
    \/ Quiet /\ \E k \in 1..Len(conns) : ListenDisconnect(k) /\ SessionsOnly
    \/ Quiet /\ \E k \in 1..Len(conns) : ServerSend(k) /\ SessionsOnly

\* forward calls that run through to SessionsManager.send_data, for a device
\* whose stored protocol another client may switch
SpecOut == Init /\ [][NextOut]_vars

\* ---------------------------------------------------- input layer (mt02)

\* The vendor records of one device: timestamp, position and battery. A
\* position p > 0 stands for lat = p degrees, lng = 1 degree; position 0 for
\* a record whose lat or lng is missing or zero.
Timestamps == 0..MaxTimestamp
Positions == 0..2
Batteries == {0, 3}
Lat(p) == p
Lon(p) == 1

Abs(x) == IF x < 0 THEN -x ELSE x

\* input/utils.haversine on two points of one meridian: there the formula is
\* int(6371 * radians(|lat1 - lat2|) * 1000), 111194.9266 m for each degree
Haversine(lat1, lon1, lat2, lon2) ==
    (1111949266 * Abs(lat1 - lat2)) \div 10000

\* a comparison that takes every report for new
AlwaysNew(last, ts) == TRUE

\* a comparison that also takes an equal timestamp for new
NotOlder(last, ts) == last = <<>> \/ ts >= last[1]

\* worker: is_new = not last_processed_timestamp or
\* int(location['timestamp']) > int(last_processed_timestamp)
IsNew(last, ts) == last = <<>> \/ ts > last[1]

\* worker: api_client.fetch_all() returned a record for the device
WorkerPoll(d, ts, p, b) ==
    /\ wk.pc = "idle" /\ wk.n < MaxReports
    /\ wk' = [wk EXCEPT !.pc = "hget", !.n = wk.n + 1, !.dev = d,
                !.rep = [timestamp |-> ts, pos |-> p, battery |-> b]]
    /\ UNCHANGED <<mt02, procs>>

\* worker: hget of last_timestamp and the comparison; a report that is not
\* new is dropped by `continue`
WorkerHget ==
    /\ wk.pc = "hget"
    /\ LET last == mt02[wk.dev].last_timestamp IN
        wk' = [wk EXCEPT !.last = last,
                !.pc = IF IsNew(last, wk.rep.timestamp) THEN "hset" ELSE "idle",
                !.dropped = IF IsNew(last, wk.rep.timestamp)
                            THEN wk.dropped ELSE wk.dropped + 1]
    /\ UNCHANGED <<mt02, procs>>

\* a process_location thread as threading.Thread(...).start() leaves it
\* (odometer: the local read by hget; gps_odometer: the mapped value; sum:
\* the value to store; forwarded: history, forward was called)
NewProc(d, r, last) ==
    [dev |-> d, rep |-> r, last |-> last, pc |-> "map", odometer |-> <<>>,
     sum |-> 0, mapped |-> "none", gps_odometer |-> 0, seen |-> <<>>,
     forwarded |-> FALSE, error |-> "none"]

\* worker: hset of last_timestamp and the start of the process_location thread
WorkerAccept ==
    /\ wk.pc = "hset"
    /\ mt02' = [mt02 EXCEPT ![wk.dev].last_timestamp = <<wk.rep.timestamp>>]
    /\ procs' = Append(procs, NewProc(wk.dev, wk.rep, wk.last))
    /\ wk' = [wk EXCEPT !.pc = "idle"]

\* map_location_data up to the hget of last_odometer: a record without lat
\* or lng is mapped to {} at once
ProcMap(i) ==
    /\ procs[i].pc = "map"
    /\ procs' = [procs EXCEPT ![i] =
            IF procs[i].rep.pos = 0
            THEN [procs[i] EXCEPT !.mapped = "empty", !.pc = "fwd"]
            ELSE [procs[i] EXCEPT !.odometer = mt02[procs[i].dev].last_odometer,
                           !.pc = "coords"]]
    /\ UNCHANGED <<mt02, wk>>

\* map_location_data: hmget of last_lat and last_lon; with both stored the
\* distance is added to the odometer, which raises TypeError when the
\* odometer is the string the store returned
ProcCoords(i) ==
    /\ procs[i].pc = "coords"
    /\ LET h == mt02[procs[i].dev]
           pr == procs[i] IN
        procs' = [procs EXCEPT ![i] =
            IF h.last_lat # <<>> /\ h.last_lon # <<>>
            THEN IF pr.odometer # <<>>
                 THEN [procs[i] EXCEPT !.seen = <<h.last_lat[1]>>,
                                !.error = "TypeError", !.pc = "raised"]
                 ELSE [procs[i] EXCEPT !.seen = <<h.last_lat[1]>>,
                                !.sum = 0 + Haversine(Lat(pr.rep.pos),
                                            Lon(pr.rep.pos), h.last_lat[1],
                                            h.last_lon[1]),
                                !.pc = "odo"]
            ELSE [procs[i] EXCEPT !.sum = IF pr.odometer = <<>> THEN 0
                                   ELSE pr.odometer[1],
                           !.pc = "volt"]]
    /\ UNCHANGED <<mt02, wk>>

\* map_location_data: hset of last_odometer
ProcHsetOdometer(i) ==
    /\ procs[i].pc = "odo"
    /\ mt02' = [mt02 EXCEPT ![procs[i].dev].last_odometer = <<procs[i].sum>>]
    /\ procs' = [procs EXCEPT ![i].pc = "volt"]
    /\ UNCHANGED wk

\* map_location_data: the battery level stored as voltage, and the mapped dict
ProcVoltage(i) ==
    /\ procs[i].pc = "volt"
    /\ mt02' = IF procs[i].rep.battery \notin {0, -1}
               THEN [mt02 EXCEPT ![procs[i].dev].voltage =
                            <<(procs[i].rep.battery * 100) \div 3>>]
               ELSE mt02
    /\ procs' = [procs EXCEPT ![i].mapped = "report",
                    ![i].gps_odometer = procs[i].sum, ![i].pc = "fwd"]
    /\ UNCHANGED wk

\* process_location: output_processor.forward(device_id, mapped_data), a call
\* without the required input_source, which raises TypeError
ProcForward(i) ==
    /\ procs[i].pc = "fwd"
    /\ procs' = [procs EXCEPT ![i].forwarded = TRUE,
                    ![i].error = "TypeError", ![i].pc = "raised"]
    /\ UNCHANGED <<mt02, wk>>

\* the store holds coordinates for the device when the worker starts
StoreCoords(d, p) ==
    /\ wk.n = 0 /\ wk.pc = "idle"
    /\ mt02[d].last_lat = <<>>
    /\ mt02' = [mt02 EXCEPT ![d].last_lat = <<Lat(p)>>, ![d].last_lon = <<Lon(p)>>]
    /\ UNCHANGED <<wk, procs>>

\* a step of the input layer leaves the output layer and the codec alone
InputOnly ==
    UNCHANGED <<sessions, mlock, sess, conns, stack, retv, exc, calls, wlog,
                acq, rm, redis, fwd, codec>>

NextMt02 ==
    \/ \E d \in Devices, ts \in Timestamps, p \in Positions, b \in Batteries :
            WorkerPoll(d, ts, p, b) /\ InputOnly
    \/ WorkerHget /\ InputOnly
    \/ WorkerAccept /\ InputOnly
    \/ \E i \in 1..Len(procs) : ProcMap(i) /\ InputOnly
    \/ \E i \in 1..Len(procs) : ProcCoords(i) /\ InputOnly
    \/ \E i \in 1..Len(procs) : ProcHsetOdometer(i) /\ InputOnly
    \/ \E i \in 1..Len(procs) : ProcVoltage(i) /\ InputOnly
    \/ \E i \in 1..Len(procs) : ProcForward(i) /\ InputOnly
    \/ \E d \in Devices, p \in Positions \ {0} : StoreCoords(d, p) /\ InputOnly

\* the mt02 worker polling the records of one device, and the
\* process_location threads it starts
SpecMt02 == Init /\ [][NextMt02]_vars

\* ------------------------------------------------------------ GT06 codec

\* Bytes are integers 0..255, a packet is a sequence of bytes, a text is the
\* sequence of its character codes.

RECURSIVE BitXor(_, _)
BitXor(a, b) ==
    IF a = 0 THEN b
    ELSE IF b = 0 THEN a
    ELSE (((a % 2) + (b % 2)) % 2) + 2 * BitXor(a \div 2, b \div 2)

RECURSIVE BitAnd(_, _)
BitAnd(a, b) ==
    IF a = 0 \/ b = 0 THEN 0
    ELSE (a % 2) * (b % 2) + 2 * BitAnd(a \div 2, b \div 2)

RECURSIVE BitOr(_, _)
BitOr(a, b) ==
    IF a = 0 THEN b
    ELSE IF b = 0 THEN a
    ELSE (IF a % 2 = 1 \/ b % 2 = 1 THEN 1 ELSE 0) + 2 * BitOr(a \div 2, b \div 2)

RECURSIVE Pow2(_)
Pow2(n) == IF n = 0 THEN 1 ELSE 2 * Pow2(n - 1)

\* x << n
Shl(x, n) == x * Pow2(n)

\* struct.pack(">B" | ">H" | ">I" | ">Q", x), int.to_bytes(3, "big")
RECURSIVE BigEndian(_, _)
BigEndian(x, n) ==
    IF n = 0 THEN <<>> ELSE Append(BigEndian(x \div 256, n - 1), x % 256)

PackB(x) == BigEndian(x, 1)
PackH(x) == BigEndian(x, 2)
PackI(x) == BigEndian(x, 4)
PackQ(x) == BigEndian(x, 8)

\* gt06/utils.crc_itu: width 16, polynomial 0x1021, init 0xFFFF, final xor
\* 0xFFFF, input and output reflected (the reflected polynomial is 0x8408)
RECURSIVE CrcShift(_, _)
CrcShift(crc, n) ==
    IF n = 0 THEN crc
    ELSE CrcShift(IF crc % 2 = 1 THEN BitXor(crc \div 2, 33800)
                  ELSE crc \div 2, n - 1)

\* the register after eight shifts, for every value of its low byte
CrcTable == [b \in 0..255 |-> CrcShift(b, 8)]

\* the register after the bytes lo..hi of data (the range is halved, and the
\* register compared before anything else, so that the evaluation stays
\* shallow)
RECURSIVE CrcFeed(_, _, _, _)
CrcFeed(crc, data, lo, hi) ==
    IF crc < 0 \/ lo > hi THEN crc
    ELSE IF lo = hi
         THEN BitXor(crc \div 256, CrcTable[BitXor(crc % 256, data[lo])])
         ELSE CrcFeed(CrcFeed(crc, data, lo, (lo + hi) \div 2),
                      data, (lo + hi) \div 2 + 1, hi)

crc_itu(data_bytes) ==
    BitXor(CrcFeed(65535, data_bytes, 1, Len(data_bytes)), 65535)

\* a mask that keeps eleven bits
ElevenBits == 2047

\* build_location_packet: the mask 0x03FF applied to the direction
DirectionMask == 1023

\* build_location_packet: course_status
CourseStatus(data) ==
    LET direction == BitAnd(data.direction, DirectionMask)
        gps_fixed == IF data.gps_fixed THEN 1 ELSE 0
        is_latitude_north == IF data.latitude >= 0 THEN 1 ELSE 0
        is_longitude_west == IF data.longitude < 0 THEN 1 ELSE 0
    IN BitOr(BitOr(BitOr(Shl(gps_fixed, 12), Shl(is_longitude_west, 11)),
                   Shl(is_latitude_north, 10)), direction)

\* build_location_packet: the fields that follow course_status, by protocol
\* number (mcc, mnc, lac and cell_id are 0)
LocationTail(protocol_number, data) ==
    LET acc_status == IF data.acc_status THEN 1 ELSE 0
        voltage_raw == data.voltage_raw
    IN CASE protocol_number = 18 ->
                PackH(0) \o PackB(0) \o PackH(0) \o BigEndian(0, 3)
         [] protocol_number = 34 ->
                PackH(0) \o PackB(0) \o PackH(0) \o BigEndian(0, 3)
                    \o PackB(acc_status) \o <<0>> \o <<0>>
                    \o PackI(data.gps_odometer)
         [] protocol_number = 50 ->
                PackH(0) \o PackB(0) \o PackH(0) \o PackI(0)
                    \o PackB(acc_status) \o <<0>> \o <<0>>
                    \o PackI(data.gps_odometer) \o PackH(voltage_raw)
                    \o <<0, 0, 0, 0, 0, 0>>
         [] protocol_number = 160 ->
                PackH(0) \o PackH(0) \o PackI(0) \o PackQ(0)
                    \o PackB(acc_status) \o <<0>> \o <<0>>
                    \o PackI(data.gps_odometer) \o PackH(voltage_raw)
         [] OTHER -> <<>>

\* build_location_packet (latitude and longitude in whole degrees, the
\* timestamp 2025-01-02 03:04:05)
build_location_packet(protocol_number, data, serial_number) ==
    LET time_bytes == <<25, 1, 2, 3, 4, 5>>
        satellites == IF data.satellites < 15 THEN data.satellites ELSE 15
        gps_info_byte == PackB(BitOr(192, satellites))
        lat_lon_bytes == PackI(Abs(data.latitude) * 1800000)
                            \o PackI(Abs(data.longitude) * 1800000)
        content_body == time_bytes \o gps_info_byte \o lat_lon_bytes
                            \o PackB(data.speed_kmh)
                            \o PackH(CourseStatus(data))
                            \o LocationTail(protocol_number, data)
        length_value == 1 + Len(content_body) + 2 + 2
        data_for_crc == PackB(length_value) \o PackB(protocol_number)
                            \o content_body \o PackH(serial_number)
    IN <<120, 120>> \o data_for_crc \o PackH(crc_itu(data_for_crc)) \o <<13, 10>>

\* build_heartbeat_packet
build_heartbeat_packet ==
    LET acc_status == 1
        last_output_status == 0
        terminal_info_content ==
            BitOr(BitOr(BitOr(BitOr(Shl(last_output_status, 7), Shl(1, 6)),
                        Shl(1, 2)), Shl(acc_status, 1)), 1)
        body == PackB(19) \o PackB(terminal_info_content) \o PackB(6)
                    \o PackB(4) \o PackB(0) \o PackB(2) \o PackH(0)
        packet_lenght == Len(body)
        data_for_crc == PackB(packet_lenght) \o body
    IN <<120, 120>> \o data_for_crc \o PackH(crc_itu(data_for_crc)) \o <<13, 10>>

\* the packet data the location builder is given
Directions == {0, 359, 1023, 1024, 2000}
Degrees == {-1, 0, 1}
LocationVariants == {18, 34, 50, 160}
PacketData ==
    [direction : Directions, latitude : Degrees, longitude : Degrees,
     gps_fixed : BOOLEAN, acc_status : {TRUE}, satellites : {6},
     speed_kmh : {0}, gps_odometer : {111194}, voltage_raw : {111}]

\* gt06.build_location_packet under the configured protocol number
BuildLocationPacket(pn, data) ==
    /\ codec.op = "none"
    /\ codec' = [op |-> "location", arg |-> <<pn, data>>,
                 out |-> build_location_packet(pn, data, 0)]

\* gt06.build_heartbeat_packet
BuildHeartbeatPacket ==
    /\ codec.op = "none"
    /\ codec' = [op |-> "heartbeat", arg |-> <<>>, out |-> build_heartbeat_packet]


\* gt06.build_voltage_info_packet: its first statement formats dev_id, a name
\* the function does not have, and raises NameError; no packet is built
BuildVoltageInfoPacket ==
    /\ codec.op = "none"
    /\ codec' = [op |-> "info", arg |-> <<>>, out |-> <<>>]


\* bytes.decode("ascii", errors="ignore")
DecodeAscii(bytes) == SelectSeq(bytes, LAMBDA b : b < 128)

\* command[a:b] of Python, on a 1-based sequence
Slice(seq, a, b) ==
    IF a >= Len(seq) \/ b <= a THEN <<>>
    ELSE SubSeq(seq, a + 1, IF b < Len(seq) THEN b ELSE Len(seq))

\* map_command: command_mapping
CommandMapping ==
    { [key |-> <<82, 69, 76, 65, 89, 44, 49, 35>>, command |-> "OUTPUT ON"],   \* RELAY,1#
      [key |-> <<68, 89, 68, 44, 48, 48, 48, 48, 48, 48, 35>>, command |-> "OUTPUT ON"],   \* DYD,000000#
      [key |-> <<82, 69, 76, 65, 89, 44, 48, 35>>, command |-> "OUTPUT OFF"],   \* RELAY,0#
      [key |-> <<72, 70, 89, 68, 44, 48, 48, 48, 48, 48, 48, 35>>, command |-> "OUTPUT OFF"],   \* HFYD,000000#
      [key |-> <<71, 80, 82, 83, 44, 71, 69, 84, 44, 76, 79, 67, 65, 84, 73, 79, 78, 35>>, command |-> "PING"]}   \* GPRS,GET,LOCATION#

StartsWith(text, prefix) ==
    Len(text) >= Len(prefix) /\ SubSeq(text, 1, Len(prefix)) = prefix

\* text.split("ON,")[-1]: what follows the last "ON," (the text itself when
\* there is none)
AfterLastOn(text) ==
    LET at == {i \in 1..Len(text) - 2 : SubSeq(text, i, i + 2) = <<79, 78, 44>>}
    IN IF at = {} THEN text
       ELSE LET i == CHOOSE j \in at : \A k \in at : k <= j
            IN SubSeq(text, i + 3, Len(text))

\* str.isdigit on an ASCII text
IsDigit(text) == text # <<>> /\ \A i \in 1..Len(text) : text[i] \in 48..57

\* int(text) of a text of digits
RECURSIVE IntOf(_)
IntOf(text) ==
    IF text = <<>> THEN 0
    ELSE 10 * IntOf(SubSeq(text, 1, Len(text) - 1)) + (text[Len(text)] - 48)

\* gt06/mapper.map_command on a frame of at least five bytes: <<"none">> for
\* None, <<"HODOMETRO", meters>> for f"HODOMETRO:{meters}"
map_command(command) ==
    LET command_length == command[5] - 4
        command_content == Slice(command, 9, 9 + command_length)
        command_key == DecodeAscii(command_content)
        kilometers == SelectSeq(AfterLastOn(command_key), LAMBDA c : c # 35)
        known == {m \in CommandMapping : m.key = command_key}
    IN IF StartsWith(command_key, <<77, 73, 76, 69, 65, 71, 69>>)
       THEN IF ~IsDigit(kilometers) THEN <<"none">>
            ELSE <<"HODOMETRO", IntOf(kilometers) * 1000>>
       ELSE IF known = {} THEN <<"none">>
            ELSE <<(CHOOSE m \in known : TRUE).command>>

\* texts a server frame may carry besides the keys of the table
OtherTexts ==
    { <<77, 73, 76, 69, 65, 71, 69, 32, 79, 78, 44, 49, 50, 35>>,   \* MILEAGE ON,12# (valid mileage)
      <<77, 73, 76, 69, 65, 71, 69, 32, 79, 78, 44, 120, 35>>,   \* MILEAGE ON,x# (mileage, not a number)
      <<77, 73, 76, 69, 65, 71, 69, 79, 78, 44, 53, 35>>,   \* MILEAGEON,5# (not MILEAGE ON,<km>#, yet starts with MILEAGE)
      <<83, 84, 65, 84, 85, 83, 35>>,   \* STATUS# (unknown)
      <<82, 69, 76, 65, 89, 44, 50, 35>>,   \* RELAY,2# (unknown)
      <<82, 69, 76, 65, 89, 44, 49>>}   \* RELAY,1 (a key cut short)

CommandTexts == {m.key : m \in CommandMapping} \cup OtherTexts

\* A server frame that carries a text at byte offset 9: 78 78, the frame
\* length at offset 2, protocol number 0x80 at offset 3, the byte b4 at offset
\* 4, four bytes of server flag, the text, serial number 1, CRC, 0D 0A.
ServerFrame(len, b4, text) ==
    LET data_for_crc == <<len, 128, b4, 0, 0, 0, 0>> \o text \o <<0, 1>>
    IN <<120, 120>> \o data_for_crc \o PackH(crc_itu(data_for_crc)) \o <<13, 10>>

\* gt06.map_command on a server frame
MapCommand(len, b4, text) ==
    /\ codec.op = "none"
    /\ codec' = [op |-> "command", arg |-> <<len, b4, text>>,
                 out |-> map_command(ServerFrame(len, b4, text))]

\* a text of n characters c
Rep(c, n) == [i \in 1..n |-> c]

\* str.zfill(width): zeros on the left up to the width, after a leading sign
zfill(text, width) ==
    IF Len(text) >= width THEN text
    ELSE LET fill == Rep(48, width - Len(text))
         IN IF text # <<>> /\ text[1] \in {43, 45}
            THEN <<text[1]>> \o fill \o Tail(text)
            ELSE fill \o text

\* output/utils.normalize_dev_id: zfill(20) first, then the digits are kept
normalize_dev_id(dev_id) ==
    SelectSeq(zfill(dev_id, 20), LAMBDA c : c \in 48..57)

\* text[-n:]
LastChars(text, n) ==
    IF Len(text) <= n THEN text ELSE SubSeq(text, Len(text) - n + 1, Len(text))

\* output/utils.get_output_dev_id (<<>> also stands for None, the result for a
\* protocol that is neither suntech4g nor gt06)
get_output_dev_id(dev_id, output_protocol) ==
    CASE Lower(output_protocol) = "gt06" -> LastChars(normalize_dev_id(dev_id), 15)
      [] Lower(output_protocol) = "suntech4g" -> LastChars(normalize_dev_id(dev_id), 10)
      [] OTHER -> <<>>

\* gt06/utils.dev_id_to_bcd: ValueError unless the text is 15 digits, else
\* the 8 bytes of "0" + dev_id, two digits to the byte
dev_id_to_bcd(dev_id) ==
    IF Len(dev_id) # 15 \/ ~IsDigit(dev_id)
    THEN [raised |-> TRUE, bytes |-> <<>>]
    ELSE LET dev_id_padded == <<48>> \o dev_id
         IN [raised |-> FALSE,
             bytes |-> [i \in 1..8 |->
                          Shl(dev_id_padded[2 * i - 1] - 48, 4)
                              + (dev_id_padded[2 * i] - 48)]]

\* device ids: an optional sign, digits, letters, digits
MaxNonDigits == 7
DigitRuns == {0, 1, 8, 15, 21}
DevIds ==
    { (IF sign THEN <<45>> ELSE <<>>) \o Rep(56, a) \o Rep(65, b) \o Rep(49, c) :
        sign \in BOOLEAN, a \in DigitRuns, b \in 0..MaxNonDigits, c \in DigitRuns }

\* the identifier of the GT06 login packet: get_output_dev_id(dev_id, "gt06")
\* encoded by dev_id_to_bcd
LoginDevId(dev_id) ==
    /\ codec.op = "none"
    /\ codec' = [op |-> "devid", arg |-> dev_id,
                 out |-> [id |-> get_output_dev_id(dev_id, "gt06"),
                          bcd |-> dev_id_to_bcd(get_output_dev_id(dev_id, "gt06"))]]

\* a step of the codec leaves everything else alone
CodecOnly ==
    UNCHANGED <<sessions, mlock, sess, conns, stack, retv, exc, calls, wlog,
                acq, rm, redis, fwd, mt02, wk, procs>>

NextCodec ==
    \/ \E pn \in LocationVariants, data \in PacketData :
            BuildLocationPacket(pn, data) /\ CodecOnly
    \/ BuildHeartbeatPacket /\ CodecOnly
    \/ BuildVoltageInfoPacket /\ CodecOnly
    \/ \E dev_id \in DevIds : LoginDevId(dev_id) /\ CodecOnly
    \/ \E text \in CommandTexts :
        \E len \in {Len(text) + 4, Len(text) + 10},
           b4 \in {Len(text) + 4, Len(text)} :
            MapCommand(len, b4, text) /\ CodecOnly

\* the GT06 builders and the command mapper, one of them applied once to an
\* input of a bounded set
SpecCodec == Init /\ [][NextCodec]_vars

\* ------------------------------------------------------------ observers

\* the call of t has ended, by a return or by an exception
Ended(t) == calls[t].outcome \in {"returned", "raised"}

\* the successful socket writes of the call of t, in order
WritesOf(t) == SelectSeq(wlog, LAMBDA w : w.call = t)

\* the successful socket writes on connection k, in order
WritesOn(k) == SelectSeq(wlog, LAMBDA w : w.conn = k)

\* the writes of the call of t other than the login packet of a connect
SentBy(t) == SelectSeq(wlog, LAMBDA w : w.call = t /\ w.role # "present")

\* the writes of the call's own data packet
DataWritesOf(t) == SelectSeq(wlog, LAMBDA w : w.call = t /\ w.role = "data")

KindsOf(seq) == [i \in 1..Len(seq) |-> seq[i].kind]

\* the place of thread t in the order of lock acquisitions
AcqPos(t) == CHOOSE n \in 1..Len(acq) : acq[n] = t

\* --------------------------------------------------------------- claims

\* C1: whenever a packet is written while the session's is_gt06_login_step flag
\* is set, that packet is a login packet; a send of any other packet type writes
\* only once the flag has been cleared.
C1_OnlyLoginWhilePending ==
    \A i \in 1..Len(wlog) : wlog[i].lp => wlog[i].kind = "login"

\* a login packet went out while the flag was set, and a call that had to wait
\* for the flag wrote a non-login packet after it was cleared
C1_Witness ==
    \E t \in Threads : \E i, j \in 1..Len(wlog) :
        /\ calls[t].waited
        /\ i < j
        /\ wlog[i].lp /\ wlog[i].kind = "login"
        /\ wlog[j].call = t /\ wlog[j].kind # "login" /\ ~wlog[j].lp

C3_WritesSerialized ==
    /\ \A i, j, k \in 1..Len(wlog) :
            (/\ i < j /\ j < k
             /\ wlog[i].sid = wlog[j].sid /\ wlog[i].sid = wlog[k].sid
             /\ wlog[i].call = wlog[k].call)
            => wlog[j].call = wlog[i].call
    /\ \A i, j \in 1..Len(wlog) :
            (/\ i < j
             /\ wlog[i].sid = wlog[j].sid
             /\ wlog[i].role = "data" /\ wlog[j].role = "data"
             /\ wlog[i].call # wlog[j].call)
            => AcqPos(wlog[i].call) < AcqPos(wlog[j].call)

\* two calls wrote their data packets on the same session, one of them after
\* other writes of its own
C3_Witness ==
    \E t, u \in Threads :
        /\ t # u
        /\ DataWritesOf(t) # <<>> /\ DataWritesOf(u) # <<>>
        /\ DataWritesOf(t)[1].sid = DataWritesOf(u)[1].sid
        /\ Len(WritesOf(t)) >= 3

\* C4: a location send that found the session in its login step, and whose
\* writes succeed, writes after the wait exactly a heartbeat, then the
\* voltage-info packet, then the location packet.
C4_HeartbeatVoltageLocation ==
    \A t \in Threads :
        (calls[t].pt = "location" /\ calls[t].waited /\ Ended(t) /\ ~calls[t].wfail)
        => KindsOf(SentBy(t)) = <<"heartbeat", "info", "location">>

\* C5: no two session objects of one device are constructed without a removal
\* in between, every caller gets a session of its device, callers that got
\* theirs between the same removals got the same object, and until the next
\* removal the manager's map holds that object for the device.
C5_OneSessionPerDevice ==
    /\ \A a, b \in 1..Len(sess) :
            (sess[a].dev = sess[b].dev /\ sess[a].epoch = sess[b].epoch) => a = b
    /\ \A t \in Threads : calls[t].sid # 0 =>
            /\ calls[t].sid \in 1..Len(sess)
            /\ sess[calls[t].sid].dev = calls[t].dev
            /\ sess[calls[t].sid].epoch = calls[t].epoch
            /\ calls[t].epoch = rm.n => sessions[calls[t].dev] = calls[t].sid
    /\ \A t, u \in Threads :
            (/\ calls[t].sid # 0 /\ calls[u].sid # 0
             /\ calls[t].dev = calls[u].dev /\ calls[t].epoch = calls[u].epoch)
            => calls[t].sid = calls[u].sid

\* two calls in progress at once hold the same session object
C5_Witness ==
    \E t, u \in Threads :
        /\ t # u
        /\ calls[t].outcome = "running" /\ calls[u].outcome = "running"
        /\ calls[t].sid # 0
        /\ calls[t].sid = calls[u].sid

\* C6: the data packet of a call is written to a socket at most once.
C6_DataWrittenAtMostOnce ==
    \A t \in Threads : Len(DataWritesOf(t)) <= 1

\* a call that connected, waited for the login step and sent the warm-up
\* heartbeat has returned with its data packet written once
C6_Witness ==
    \E t \in Threads :
        /\ calls[t].outcome = "returned"
        /\ calls[t].waited /\ calls[t].tried
        /\ Len(DataWritesOf(t)) = 1
        /\ Len(WritesOf(t)) >= 3

\* C7: no send_data call ends with an exception leaving _send_data.
C7_NoExceptionEscapes ==
    \A t \in Threads : calls[t].outcome # "raised"

\* C8: when connect has returned to _send_data, it returned True only if the
\* session is connected with a socket, and otherwise the session is not connected.
C8_ConnectResult ==
    \A t \in Threads :
        (/\ stack[t] # <<>> /\ ~exc[t]
         /\ Top(t).fn = "_send_data" /\ Top(t).pc \in {"conn_ret", "pc_ret"})
        => IF retv[t] = "True"
           THEN sess[SessOf(t)].is_connected /\ sess[SessOf(t)].sock # 0
           ELSE ~sess[SessOf(t)].is_connected

\* C9: the first packet written on every gt06 connection is the login packet of
\* the connect that opened it; and a call that finds the session disconnected by
\* an I/O failure tries a new TCP connection before it writes or ends, and
\* writes only on a connection it opened itself.
C9_ReconnectStartsWithLogin ==
    /\ \A k \in 1..Len(conns) :
            (conns[k].addr = "gt06" /\ WritesOn(k) # <<>>)
            => WritesOn(k)[1].kind = "login" /\ WritesOn(k)[1].role = "present"
    /\ \A t \in Threads :
            (calls[t].startdisc /\ (Ended(t) \/ WritesOf(t) # <<>>))
            => /\ calls[t].tried
               /\ \A i \in 1..Len(wlog) :
                    wlog[i].call = t => conns[wlog[i].conn].by = t

\* a call found the session disconnected by an I/O failure, opened the second
\* connection, wrote the login packet on it and then its data packet
C9_Witness ==
    \E t \in Threads : \E i, j \in 1..Len(wlog) :
        /\ calls[t].startdisc
        /\ i < j
        /\ wlog[i].call = t /\ wlog[i].role = "present" /\ wlog[i].conn = 2
        /\ wlog[j].call = t /\ wlog[j].role = "data" /\ wlog[j].conn = 2

\* C10: a call whose lazy connect fails for a missing protocol, a missing
\* address or a TCP error writes nothing; when connect has failed the session is
\* not connected and the call is about to return; and it ends by returning.
C10_FailedConnectWritesNothing ==
    \A t \in Threads :
        calls[t].cfail \in {"noproto", "noaddr", "tcp"} =>
            /\ WritesOf(t) = <<>>
            /\ calls[t].outcome \in {"running", "returned"}
            /\ calls[t].outcome = "running" =>
                    /\ Len(stack[t]) = 1 /\ ~exc[t]
                    /\ Top(t).fn = "_send_data" /\ Top(t).pc = "conn_ret"
                    /\ retv[t] # "True"
                    /\ ~sess[SessOf(t)].is_connected

\* a call whose TCP connect failed has returned and the session is not connected
C10_Witness ==
    \E t \in Threads :
        /\ calls[t].cfail = "tcp"
        /\ calls[t].outcome = "returned"
        /\ ~sess[calls[t].sid].is_connected

\* C11: when the sendall of a data packet fails in _send_data, the step leaves
\* the session not connected, its socket closed and its reference cleared, and
\* the heartbeat timer as it was.
C11_WriteFailureDisconnects ==
    [][\A t \in Threads :
        (/\ Running(t, "_send_data", "write")
         /\ Top(t).role = "data"
         /\ SendDataWrite(t, FALSE))
        => LET s == SessOf(t) IN
            /\ ~sess'[s].is_connected
            /\ sess'[s].sock = 0
            /\ sess[s].sock # 0 => conns'[sess[s].sock].closed
            /\ sess'[s].timer_started = sess[s].timer_started]_vars

\* a heartbeat send connected and wrote its login packet, never waited, and
\* then failed to write: the failed write was that of its data packet
C11_Witness ==
    \E t \in Threads :
        /\ calls[t].pt = "heartbeat" /\ calls[t].outcome = "returned"
        /\ calls[t].wfail /\ ~calls[t].waited
        /\ Len(WritesOf(t)) = 1 /\ WritesOf(t)[1].role = "present"
        /\ ~sess[calls[t].sid].is_connected
        /\ conns[WritesOf(t)[1].conn].closed

\* C12: after a call has written its data packet and returned, and the session
\* is still connected on that connection, a heartbeat timer is running.
C12_TimerArmedAfterSend ==
    \A t \in Threads :
        (/\ calls[t].outcome = "returned" /\ DataWritesOf(t) # <<>>
         /\ sess[calls[t].sid].is_connected
         /\ sess[calls[t].sid].sock = DataWritesOf(t)[1].conn)
        => sess[calls[t].sid].timer_started

DisconnectCalled(s) ==
    \/ \E t \in Threads :
        /\ Running(t, "_send_data", "write") /\ SessOf(t) = s
        /\ SendDataWrite(t, FALSE)
    \/ \E k \in 1..Len(conns) : conns[k].sid = s /\ ListenDisconnect(k)
    \/ \E t \in Threads :
        /\ calls[t].outcome = "idle"
        /\ calls'[t].api = "disconnect" /\ calls'[t].sid = s

\* C14: a disconnect() on a session that is not connected changes neither its
\* socket reference, connected flag, login flag nor protocol and closes no
\* socket; and after any disconnect() the session is not connected and its
\* socket reference is cleared.
C14_DisconnectIdempotent ==
    [][\A s \in 1..Len(sess) : DisconnectCalled(s) =>
        /\ ~sess'[s].is_connected
        /\ sess'[s].sock = 0
        /\ ~sess[s].is_connected =>
            /\ sess'[s].sock = sess[s].sock
            /\ sess'[s].is_gt06_login_step = sess[s].is_gt06_login_step
            /\ sess'[s].output_protocol = sess[s].output_protocol
            /\ \A k \in 1..Len(conns) : conns'[k].closed = conns[k].closed]_vars

\* C15: a connect() called on a connected session returns True without trying a
\* TCP connection, starting a reader or writing a packet.
C15_ConnectIdempotent ==
    \A t \in Threads :
        (calls[t].api = "connect" /\ calls[t].startconn) =>
            \/ Running(t, "connect", "chk")
            \/ /\ calls[t].outcome = "returned"
               /\ retv[t] = "True"
               /\ ~calls[t].tried
               /\ WritesOf(t) = <<>>
               /\ \A k \in 1..Len(conns) : conns[k].by # t

\* a direct connect() on a connected session has returned, the session still
\* being connected
C15_Witness ==
    \E t \in Threads :
        /\ calls[t].api = "connect" /\ calls[t].startconn
        /\ calls[t].outcome = "returned"
        /\ sess[calls[t].sid].is_connected

C18_ManagerLockNotHeldWaiting ==
    /\ \A t \in Threads :
            mlock = t => stack[t] # <<>> /\ Top(t).fn = "get_session"
    /\ (mlock = "rm" /\ rm.sid # 0) => sess[rm.sid].owner = "none"

Resolved(t) == fwd[t].pc \in {"ret", "done"}

\* C20 as stated: a forward call that found no output_protocol field persisted
\* the default and uses it; one that found the field uses the stored value
\* and did not write it.
C20_StoredProtocolUsed ==
    \A t \in Threads :
        /\ Resolved(t) =>
            IF fwd[t].read = <<>>
            THEN fwd[t].proto = DefaultOutputProtocol /\ fwd[t].wrote
            ELSE fwd[t].proto = fwd[t].read[1] /\ ~fwd[t].wrote
        /\ fwd[t].pc = "done" => fwd[t].used = fwd[t].proto

\* C20 amended: a forward call that found no output_protocol field, or found
\* it empty, persisted the default under the device's key and uses it; one
\* that found a non-empty value uses that value and did not write it. The
\* only write a forward call makes to the store is that of the default, by a
\* call that read no value or an empty one.
C20_DefaultWhenAbsentOrEmpty ==
    /\ [](\A t \in Threads :
            /\ Resolved(t) =>
                IF fwd[t].read = <<>> \/ fwd[t].read = <<"">>
                THEN fwd[t].proto = DefaultOutputProtocol /\ fwd[t].wrote
                ELSE fwd[t].proto = fwd[t].read[1] /\ ~fwd[t].wrote
            /\ fwd[t].pc = "done" => fwd[t].used = fwd[t].proto)
    /\ [][(fwd' # fwd /\ redis' # redis) =>
            \E t \in Threads :
                /\ fwd[t].pc = "hset" /\ fwd'[t].pc = "ret"
                /\ fwd[t].read \in {<<>>, <<"">>}
                /\ redis' = [redis EXCEPT
                        ![fwd[t].dev] = <<DefaultOutputProtocol>>]]_vars

\* one call found no field, persisted the default and used it; another found
\* a stored protocol, used it and left it in the store
C20_Witness ==
    \E t, u \in Threads :
        /\ fwd[t].pc = "done" /\ fwd[t].read = <<>>
        /\ fwd[t].wrote /\ fwd[t].used = DefaultOutputProtocol
        /\ fwd[u].pc = "done" /\ fwd[u].read = <<"suntech4g">>
        /\ ~fwd[u].wrote /\ fwd[u].used = "suntech4g"
        /\ redis[fwd[u].dev] = <<"suntech4g">>

\* C21: a forward call for which no packet builder is registered (its
\* create_output_packet returned b"") never calls send_data, so it obtains or
\* creates no session, opens no connection and writes nothing.
C21_NoBuilderNoSend ==
    \A t \in Threads :
        fwd[t].packet = "empty" =>
            /\ calls[t].outcome = "idle"
            /\ calls[t].sid = 0
            /\ \A k \in 1..Len(conns) : conns[k].by # t
            /\ \A i \in 1..Len(wlog) : wlog[i].by # t

\* the odometer a device's hash holds, 0 when the field is absent
Odometer(h) == IF h.last_odometer = <<>> THEN 0 ELSE h.last_odometer[1]

\* process_location thread i has finished map_location_data with a report
Mapped(i) == procs[i].mapped = "report"

\* C22: once a device has a last_timestamp, every step leaves it one that is
\* not smaller, whatever the order in which the timestamps are polled.
C22_TimestampNeverDecreases ==
    [][\A d \in Devices :
        mt02[d].last_timestamp # <<>> =>
            /\ mt02'[d].last_timestamp # <<>>
            /\ mt02'[d].last_timestamp[1] >= mt02[d].last_timestamp[1]]_vars

\* a report older than the stored timestamp was polled and dropped
C22_Witness ==
    /\ wk.pc = "idle" /\ wk.dropped >= 1
    /\ mt02[wk.dev].last_timestamp # <<>>
    /\ wk.rep.timestamp < mt02[wk.dev].last_timestamp[1]

\* C23: the worker's step on a report whose timestamp is not greater than the
\* stored last_timestamp ends the report: it writes nothing to the store and
\* starts no process_location thread; every thread (hence every mapping and
\* every forward call) belongs to a report that was newer than the timestamp
\* the worker read, and dropped reports have no thread.
C23_OldReportDropped ==
    /\ [](/\ \A i \in 1..Len(procs) :
                procs[i].last = <<>>
                    \/ procs[i].rep.timestamp > procs[i].last[1]
          /\ Len(procs) + wk.dropped + (IF wk.pc = "idle" THEN 0 ELSE 1) = wk.n)
    /\ [][(/\ wk.pc = "hget" /\ wk'.pc # "hget"
           /\ mt02[wk.dev].last_timestamp # <<>>
           /\ wk.rep.timestamp <= mt02[wk.dev].last_timestamp[1]) =>
                /\ wk'.pc = "idle"
                /\ mt02' = mt02
                /\ procs' = procs]_vars

\* a report with the stored timestamp was polled again and dropped, after the
\* first was accepted and processed
C23_Witness ==
    /\ wk.pc = "idle" /\ wk.dropped >= 1
    /\ mt02[wk.dev].last_timestamp = <<wk.rep.timestamp>>
    /\ Len(procs) = wk.n - wk.dropped
    /\ \E i \in 1..Len(procs) : procs[i].pc = "raised"

\* C24: a record whose lat or lng is missing or zero leads to no forward call.
C24_NoCoordinatesNoForward ==
    \A i \in 1..Len(procs) : procs[i].rep.pos = 0 => ~procs[i].forwarded

\* C25: once the latest accepted report with coordinates is mapped, last_lat
\* and last_lon hold its coordinates; and of two successive accepted reports
\* with coordinates the second is mapped with the odometer of the first plus
\* the distance between their coordinates.
C25_OdometerAdvances ==
    /\ \A i \in 1..Len(procs) :
        (i = Len(procs) /\ Mapped(i)) =>
            /\ mt02[procs[i].dev].last_lat = <<Lat(procs[i].rep.pos)>>
            /\ mt02[procs[i].dev].last_lon = <<Lon(procs[i].rep.pos)>>
    /\ \A i \in 1..Len(procs) - 1 :
        (Mapped(i) /\ Mapped(i + 1)) =>
            procs[i + 1].gps_odometer =
                procs[i].gps_odometer
                    + Haversine(Lat(procs[i + 1].rep.pos), Lon(procs[i + 1].rep.pos),
                                Lat(procs[i].rep.pos), Lon(procs[i].rep.pos))

Built == codec.op \in {"location", "heartbeat", "info"} /\ codec.out # <<>>

\* the bytes of a frame that follow its LEN byte up to and including the CRC
\* (the frame ends with the two stop bytes 0D 0A)
AfterLen(frame) == SubSeq(frame, 4, Len(frame) - 2)

\* C27: in every outbound frame LEN equals the number of bytes that follow
\* LEN up to and including the CRC, and the default heartbeat frame is
\* 7878 0A 13 47 06 04 00 02 0000 CRC 0D0A.
C27_LenCountsThroughCrc ==
    Built =>
        /\ codec.out[3] = Len(AfterLen(codec.out))
        /\ codec.op = "heartbeat" =>
                /\ Len(codec.out) = 15
                /\ SubSeq(codec.out, 1, 11) = <<120, 120, 10, 19, 71, 6, 4, 0, 2, 0, 0>>
                /\ SubSeq(codec.out, 14, 15) = <<13, 10>>

\* the course_status word of a location frame: the two bytes after the speed
CourseWord(frame) == frame[21] * 256 + frame[22]

\* bit n of a word
Bit(word, n) == (word \div Pow2(n)) % 2

ValidMileage(text) ==
    LET prefix == <<77, 73, 76, 69, 65, 71, 69, 32, 79, 78, 44>>
    IN /\ Len(text) >= Len(prefix) + 2
       /\ SubSeq(text, 1, Len(prefix)) = prefix
       /\ text[Len(text)] = 35
       /\ IsDigit(SubSeq(text, Len(prefix) + 1, Len(text) - 1))

\* C29: a server frame whose LEN is the length of its text plus 4, the text
\* starting at byte offset 9, decodes to the mapped universal command when the
\* text is a key of the command table, and to no command when the text is
\* neither a key nor a valid MILEAGE ON,<km># command.
C29_KeyOfLenMinus4Decoded ==
    (codec.op = "command" /\ codec.arg[1] = Len(codec.arg[3]) + 4) =>
        LET text == codec.arg[3]
            known == {m \in CommandMapping : m.key = text}
        IN /\ known # {} => \E m \in known : codec.out = <<m.command>>
           /\ (known = {} /\ ~ValidMileage(text)) => codec.out = <<"none">>

\* ------------------------------------------- the sessions under fairness

\* a statement of thread t
ThreadStep(t) ==
    /\ SessionsOnly
    /\ \/ SendDataCheck(t) \/ SendDataConnected(t) \/ Connect(t) \/ ConnectReturn(t)
       \/ PresentReturn(t) \/ HandleVoltage(t)
       \/ /\ Quiet
          /\ (GetSessionLock(t) \/ GetSessionCheck(t) \/ GetSessionCreate(t)
               \/ GetSessionReturn(t) \/ SendDataLock(t) \/ SendDataProtocol(t)
               \/ ConnectTcp(t, TRUE) \/ PresentConnection(t) \/ HandleStart(t)
               \/ HandleWait(t) \/ SendDataWrite(t, TRUE))

\* a statement of the reader thread of connection k
ReaderStep(k) ==
    /\ k <= Len(conns)
    /\ Quiet
    /\ (ListenLoop(k) \/ ListenData(k) \/ ListenDisconnect(k))
    /\ SessionsOnly

\* gt06 sends of a heartbeat packet by two threads, the readers, and a server
\* that answers or closes the connection
NextLive ==
    \/ \E t \in Threads : SendDataCheck(t) /\ SessionsOnly
    \/ \E t \in Threads : SendDataConnected(t) /\ SessionsOnly
    \/ \E t \in Threads : Connect(t) /\ SessionsOnly
    \/ \E t \in Threads : ConnectReturn(t) /\ SessionsOnly
    \/ \E t \in Threads : PresentReturn(t) /\ SessionsOnly
    \/ \E t \in Threads : HandleVoltage(t) /\ SessionsOnly
    \/ Quiet /\ \E t \in Threads, d \in Devices, in \in InputsRm : SendData(t, d, in[1], in[2]) /\ SessionsOnly
    \/ Quiet /\ \E t \in Threads : GetSessionLock(t) /\ SessionsOnly
    \/ Quiet /\ \E t \in Threads : GetSessionCheck(t) /\ SessionsOnly
    \/ Quiet /\ \E t \in Threads : GetSessionCreate(t) /\ SessionsOnly
    \/ Quiet /\ \E t \in Threads : GetSessionReturn(t) /\ SessionsOnly
    \/ Quiet /\ \E t \in Threads : SendDataLock(t) /\ SessionsOnly
    \/ Quiet /\ \E t \in Threads : SendDataProtocol(t) /\ SessionsOnly
    \/ Quiet /\ \E t \in Threads : ConnectTcp(t, TRUE) /\ SessionsOnly
    \/ Quiet /\ \E t \in Threads : PresentConnection(t) /\ SessionsOnly
    \/ Quiet /\ \E t \in Threads : HandleStart(t) /\ SessionsOnly
    \/ Quiet /\ \E t \in Threads : HandleWait(t) /\ SessionsOnly
    \/ Quiet /\ \E t \in Threads : SendDataWrite(t, TRUE) /\ SessionsOnly
    \/ Quiet /\ \E k \in 1..Len(conns) : ListenLoop(k) /\ SessionsOnly
    \/ Quiet /\ \E k \in 1..Len(conns) : ListenData(k) /\ SessionsOnly
    \/ Quiet /\ \E k \in 1..Len(conns) : ListenDisconnect(k) /\ SessionsOnly
    \/ Quiet /\ \E k \in 1..Len(conns) : ServerSend(k) /\ SessionsOnly
    \/ Quiet /\ \E k \in 1..Len(conns) : ServerClose(k) /\ SessionsOnly

\* every thread that can run its next statement does so in the end, and a
\* reader that can again and again take the session lock gets it in the end;
\* nothing is asked of the callers or of the server
SpecLive ==
    /\ Init /\ [][NextLive]_vars
    /\ \A t \in Threads : WF_vars(ThreadStep(t))
    /\ \A k \in 1..MaxConns : SF_vars(ReaderStep(k))

\* the recv of reader k returns b"" (the server closed the connection) or
\* raises (the socket was shut down)
ZeroRead(k) ==
    /\ k <= Len(conns)
    /\ conns[k].rpc = "recv"
    /\ LET c == conns[k].rsock IN
          conns[c].closed \/ (conns[c].peer_closed /\ ~conns[c].inbox)

\* reader k has returned and its session is disconnected
ReaderGone(k) ==
    /\ k <= Len(conns)
    /\ conns[k].rpc = "done"
    /\ ~sess[conns[k].sid].is_connected

\* C30: when the reader gets a zero-length read or a connection reset, the
\* session eventually becomes disconnected and the reader terminates, also
\* when a sender is in the login wait holding the session lock.
C30_ZeroReadLeadsToDisconnect ==
    \A k \in 1..MaxConns : ZeroRead(k) ~> ReaderGone(k)

\* reader k has read a frame outside the login window (the step that made it
\* so, or a state after it)
FrameRead(k) == conns[k].rpc = "disc"

\* C31: a frame read outside the login window is dispatched or ignored, and
\* either way the session stays connected and the reader keeps running: the
\* next step of a reader that has read such a frame takes it back to recv and
\* leaves the connection of its session as it is.
C31_FrameLeavesReaderRunning ==
    [][\A k \in 1..Len(conns) :
        (FrameRead(k) /\ conns'[k].rpc # conns[k].rpc) =>
            /\ conns'[k].rpc = "recv"
            /\ sess'[conns[k].sid].is_connected = sess[conns[k].sid].is_connected]_vars

\* the login packet of _present_connection was written on connection c
LoginSentOn(c) ==
    \E i \in 1..Len(wlog) :
        wlog[i].conn = c /\ wlog[i].kind = "login" /\ wlog[i].role = "present"

\* this step is a read of bytes by the reader of connection k
ReadBy(k) ==
    /\ conns[k].rpc = "recv"
    /\ conns[conns[k].rsock].inbox
    /\ ~conns'[conns[k].rsock].inbox
    /\ ~conns'[conns[k].rsock].closed

\* C32: the login flag of a session is cleared only by a read of bytes on the
\* session's current connection after the login packet of that connection was
\* written, the bytes being dropped with the reader going on; and the flag is
\* set only by _present_connection.
C32_LoginWindowClosedByAnswer ==
    [][\A s \in 1..Len(sess) :
        /\ (sess[s].is_gt06_login_step /\ ~sess'[s].is_gt06_login_step) =>
            \E k \in 1..Len(conns) :
                /\ conns[k].sid = s
                /\ ReadBy(k)
                /\ conns[k].rsock = sess[s].sock
                /\ LoginSentOn(conns[k].rsock)
                /\ conns'[k].rpc # "disc"
        /\ (~sess[s].is_gt06_login_step /\ sess'[s].is_gt06_login_step) =>
            \E t \in Threads :
                /\ SessOf(t) = s
                /\ Running(t, "_present_connection", "start")
                /\ ~Running(t, "_present_connection", "start")']_vars

\* C33: for every device id, normalization followed by the GT06 truncation
\* gives exactly 15 ASCII digits, and its encoding as 8 BCD bytes never fails.
C33_LoginIdIsFifteenDigits ==
    codec.op = "devid" =>
        /\ Len(codec.out.id) = 15
        /\ IsDigit(codec.out.id)
        /\ ~codec.out.bcd.raised
        /\ Len(codec.out.bcd.bytes) = 8

\* this step is the disconnect of reader k, woken in its recv
ReaderDisconnects(k) == conns[k].rpc = "recv" /\ conns'[k].rpc = "done"

\* connection c is closed by this step
ClosedNow(c) == ~conns[c].closed /\ conns'[c].closed

\* C34: the disconnect of a reader woken by the shutdown, the peer close or an
\* error of the connection it reads never closes another connection, one the
\* session established after that.
C34_ReaderClosesOnlyItsConnection ==
    [][\A k \in 1..Len(conns) :
        ReaderDisconnects(k) =>
            \A c \in 1..Len(conns) : ClosedNow(c) => c <= conns[k].rsock]_vars

\* the readers blocked in recv on the socket of connection c
ReadersOf(c) == {k \in 1..Len(conns) : conns[k].rpc = "recv" /\ conns[k].rsock = c}

\* C35: at most one reader reads a socket, and the reader started for one
\* connection never reads the socket of a later one.
C35_OneReaderPerSocket ==
    \A c \in 1..Len(conns) :
        /\ Cardinality(ReadersOf(c)) <= 1
        /\ \A k \in ReadersOf(c) : k = c

\* session s was popped by a remove_session call that has returned
Removed(s) == sess[s].epoch < rm.n /\ rm.pc = "idle"

\* the connections session s holds open
LiveConns(s) ==
    {c \in 1..Len(conns) : conns[c].sid = s /\ sess[s].is_connected /\ sess[s].sock = c
                            /\ ~conns[c].closed}

\* C36: once remove_session has returned, the removed session holds no open
\* connection again, so that a device has at most one live connection.
C36_RemovedSessionStaysClosed ==
    /\ \A s \in 1..Len(sess) : Removed(s) => LiveConns(s) = {}
    /\ \A d \in Devices :
        Cardinality(UNION {LiveConns(s) : s \in {x \in 1..Len(sess) : sess[x].dev = d}}) <= 1

\* a thread is inside connect() of session s
Connecting(s) ==
    \E t \in Threads :
        /\ SessOf(t) = s
        /\ \E i \in 1..Len(stack[t]) : stack[t][i].fn = "connect"

\* C37: a session whose connected flag is false, with no connect in progress,
\* holds no socket reference and none of its sockets is open.
C37_DisconnectedHoldsNoSocket ==
    \A s \in 1..Len(sess) :
        (~sess[s].is_connected /\ ~Connecting(s)) =>
            /\ sess[s].sock = 0
            /\ \A c \in 1..Len(conns) : conns[c].sid = s => conns[c].closed

\* thread t is in the login wait and the connection of its session is lost:
\* the session is disconnected, or its socket is closed, or the server has
\* closed the connection and left nothing to read
WaitingOnLostConnection(t) ==
    /\ Running(t, "_handle", "wait")
    /\ LET s == SessOf(t) IN
        \/ ~sess[s].is_connected
        \/ sess[s].sock = 0
        \/ /\ sess[s].sock # 0
           /\ \/ conns[sess[s].sock].closed
              \/ conns[sess[s].sock].peer_closed /\ ~conns[sess[s].sock].inbox

\* C38: a send_data call that waits in the login wait while the connection is
\* lost stops waiting and the call returns.
C38_LoginWaitEndsWhenConnectionLost ==
    \A t \in Threads :
        WaitingOnLostConnection(t) ~> (calls[t].outcome # "running")

\* process_location thread i is between its read of last_odometer and its
\* write of it
InUpdate(i) == procs[i].pc \in {"coords", "odo"}

\* thread i is past its odometer update, having found stored coordinates
Updated(i) == procs[i].seen # <<>> /\ procs[i].pc \in {"volt", "fwd", "raised"}

\* the distance thread i has to add: from the coordinates it found to its own
Increment(i) ==
    Haversine(Lat(procs[i].rep.pos), Lon(procs[i].rep.pos),
              procs[i].seen[1], Lon(procs[i].seen[1]))

\* C39: the read-compute-write updates of last_odometer by two reports of one
\* device do not overlap, and once both are through last_odometer includes
\* the increments of both.
C39_OdometerUpdatesNotLost ==
    \A i, j \in 1..Len(procs) :
        (i < j /\ procs[i].dev = procs[j].dev) =>
            /\ ~(InUpdate(i) /\ InUpdate(j))
            /\ (Updated(i) /\ Updated(j)) =>
                    Odometer(mt02[procs[i].dev]) >= Increment(i) + Increment(j)

====
